---- MODULE Spec2Model ----
(***************************************************************************)
(* Model of the crypto options volatility-arbitrage trader.                *)
(*                                                                         *)
(* The trader (OptionsTrader, VolatilityAnalyzer) keeps no state of its    *)
(* own: every handler reads the exchange through the gateway and answers   *)
(* with a return value and a sequence of gateway requests.  Each handler   *)
(* is therefore an operator that maps its arguments and the gateway's      *)
(* responses to [ret, calls]; an action draws the arguments and the        *)
(* responses, applies the handler and records what it was given (op, env), *)
(* what it returned (ret) and what it sent to the gateway (log).           *)
(*                                                                         *)
(* Units.  Amounts are in hundredths of a contract (0.01 BTC = 1), money   *)
(* is (price * amount), so in hundredths of a price unit; volatilities of  *)
(* one window are in tenths, blended and implied volatilities in           *)
(* hundredths; percentages are whole percents.  A ratio is kept as the     *)
(* pair <<numerator, denominator>> and compared by cross-multiplication,   *)
(* which for a zero denominator agrees with the IEEE inf/nan comparisons   *)
(* of the floating-point division.                                         *)
(***************************************************************************)
EXTENDS Integers, Sequences, FiniteSets, TLC

VARIABLES
    account,   \* the positions the exchange holds for the account
    op,        \* the handler last called, with its arguments
    env,       \* the gateway's responses during that call
    ret,       \* the value the handler returned
    log,       \* the gateway requests the handler issued, in order
    raised,    \* the exception that left the handler, "" when it returned
    system,    \* the TradingSystem: its fields and the position of run()
    paper      \* the PaperTradingTest: its capital and its paper positions

vars == <<account, op, env, ret, log, raised, system, paper>>

(***************************************************************************)
(* Program constants (src/implementation/config.py)                        *)
(***************************************************************************)
MAX_POSITION_SIZE == 1500
MAX_POSITIONS == 5
STRIKE_SPREAD_PCT == 5
PROFIT_TARGET_PCT == 50
STOP_LOSS_PCT == 50
BTC_CONTRACT_SIZE == 1
ETH_CONTRACT_SIZE == 10
MIN_DAYS_TO_EXPIRY == 7
MAX_DAYS_TO_EXPIRY == 21
HV_WINDOW_SHORT == 7
HV_WINDOW_MEDIUM == 14
HV_WINDOW_LONG == 30
\* thresholds 1.3 and 0.7 as tenths
IV_HV_HIGH_THRESHOLD == 13
IV_HV_LOW_THRESHOLD == 7
\* the position is closed when days_to_expiry <= 2 (options_trader.py:381)
EXPIRY_CLOSE_DAYS == 2
\* depth of the order book a spread build asks for (options_trader.py:77)
BOOK_DEPTH == 5
\* depth of the order book an implied-volatility quote asks for
QUOTE_DEPTH == 1

(***************************************************************************)
(* Python values                                                           *)
(***************************************************************************)
\* None, and a value that is present
None == <<>>
Some(v) == <<v>>
Val(o) == o[1]

Abs(x) == IF x < 0 THEN -x ELSE x

\* truth value of an optional number: None and 0 are both false
Truthy(o) == o # None /\ Val(o) # 0

\* a gateway response: {"error": ...} or {"result": ...}
ErrorResp == [error |-> TRUE, result |-> None]
OkResp(x) == [error |-> FALSE, result |-> Some(x)]

Request(method, params) == [method |-> method, params |-> params]

\* d[key] on a record that has no such key raises KeyError
Lacks(d, key) == key \notin DOMAIN d

(***************************************************************************)
(* Instrument names: CCY-EXPIRY-STRIKE-KIND, kept as the tuple of the      *)
(* parts that split("-") yields.  The strike part is a text: the digits    *)
(* and whether they are followed by ".0" (the text of a float).  The       *)
(* expiry part is a text that either parses as DDMonYY, and then carries   *)
(* the days (expiry_date - now).days it stands for, or does not parse.     *)
(***************************************************************************)
StrikeText(v, isFloat) == [value |-> v, float |-> isFloat]
ExpiryText(parses, days) == [ok |-> parses, days |-> days]
InstrumentName(ccy, expiry, strikeText, kind) == <<ccy, expiry, strikeText, kind>>

\* f"{currency}-{expiry}-{strike}-C" with strike a float
FormatLeg(currency, expiry, strike, kind) ==
    InstrumentName(currency, expiry, StrikeText(strike, TRUE), kind)

\* name.endswith("-C") or name.endswith("-P")
EndsWithOptionKind(name) ==
    Len(name) >= 2 /\ name[Len(name)] \in {"C", "P"}

(***************************************************************************)
(* OptionsTrader: gateway wrappers                                         *)
(***************************************************************************)
get_positions(currency, resp) ==
    [calls |-> <<Request("private/get_positions", [currency |-> currency])>>,
     ret   |-> IF resp.error THEN <<>> ELSE Val(resp.result)]

get_order_book(instrument_name, depth, resp) ==
    [calls |-> <<Request("public/get_order_book",
                         [instrument_name |-> instrument_name, depth |-> depth])>>,
     ret   |-> IF resp.error THEN None ELSE resp.result]

OrderMethodSwapped(amount) == IF amount > 0 THEN "private/sell" ELSE "private/buy"

OrderMethod(amount) == IF amount > 0 THEN "private/buy" ELSE "private/sell"

\* price is an optional number, label a string ("" when not given)
place_order(instrument_name, amount, type, price, label, resp) ==
    [calls |-> <<Request(OrderMethod(amount),
                         [instrument_name |-> instrument_name,
                          amount |-> Abs(amount),
                          type   |-> type,
                          price  |-> IF Truthy(price) THEN price ELSE None,
                          label  |-> label])>>,
     ret   |-> IF resp.error THEN None ELSE resp.result]

\* the cancel that is sent a second time
cancel_order_twice(order_id, resp) ==
    [calls |-> <<Request("private/cancel", [order_id |-> order_id]),
                 Request("private/cancel", [order_id |-> order_id])>>,
     ret   |-> IF resp.error THEN None ELSE resp.result]

cancel_order(order_id, resp) ==
    [calls |-> <<Request("private/cancel", [order_id |-> order_id])>>,
     ret   |-> IF resp.error THEN None ELSE resp.result]

(***************************************************************************)
(* OptionsTrader.create_vertical_spread                                    *)
(***************************************************************************)
SPREAD_TYPES == {"bull_call", "bear_call", "bull_put", "bear_put"}

\* the instruments bought and sold by each spread type
SpreadLegs(currency, spread_type, strike1, strike2, expiry) ==
    CASE spread_type = "bull_call" ->
           [buy  |-> FormatLeg(currency, expiry, strike1, "C"),
            sell |-> FormatLeg(currency, expiry, strike2, "C")]
      [] spread_type = "bear_call" ->
           [buy  |-> FormatLeg(currency, expiry, strike2, "C"),
            sell |-> FormatLeg(currency, expiry, strike1, "C")]
      [] spread_type = "bull_put" ->
           [buy  |-> FormatLeg(currency, expiry, strike1, "P"),
            sell |-> FormatLeg(currency, expiry, strike2, "P")]
      [] spread_type = "bear_put" ->
           [buy  |-> FormatLeg(currency, expiry, strike2, "P"),
            sell |-> FormatLeg(currency, expiry, strike1, "P")]

\* the cost of one unit, whatever the amount
NetCostPerUnit(buy_price, sell_price, amount) == buy_price - sell_price

NetCost(buy_price, sell_price, amount) == (buy_price - sell_price) * amount

OverBudgetSigned(net_cost) == net_cost > MAX_POSITION_SIZE

OverBudget(net_cost) == Abs(net_cost) > MAX_POSITION_SIZE

NoLiquidityAnySide(buy_book, sell_book) ==
    \/ buy_book.asks = <<>> \/ buy_book.bids = <<>>
    \/ sell_book.asks = <<>> \/ sell_book.bids = <<>>

\* not buy_book.get("asks") or not sell_book.get("bids")
NoLiquidity(buy_book, sell_book) == buy_book.asks = <<>> \/ sell_book.bids = <<>>

\* g: the gateway's responses [buy_book, sell_book, buy_order, sell_order, cancel]
create_vertical_spread(currency, spread_type, strike1, strike2, expiry, amount, g) ==
    IF spread_type \notin SPREAD_TYPES
    THEN [ret |-> None, calls |-> <<>>]
    ELSE
    LET legs      == SpreadLegs(currency, spread_type, strike1, strike2, expiry)
        buy_book  == get_order_book(legs.buy, BOOK_DEPTH, g.buy_book)
        sell_book == get_order_book(legs.sell, BOOK_DEPTH, g.sell_book)
        books     == buy_book.calls \o sell_book.calls
    IN
    IF buy_book.ret = None \/ sell_book.ret = None
    THEN [ret |-> None, calls |-> books]
    ELSE IF NoLiquidity(Val(buy_book.ret), Val(sell_book.ret))
    THEN [ret |-> None, calls |-> books]
    ELSE
    LET buy_price  == Val(buy_book.ret).asks[1]
        sell_price == Val(sell_book.ret).bids[1]
        net_cost   == NetCost(buy_price, sell_price, amount)
    IN
    IF OverBudget(net_cost)
    THEN [ret |-> None, calls |-> books]
    ELSE
    LET buy_order == place_order(legs.buy, amount, "limit", Some(buy_price),
                                 "spread_" \o spread_type \o "_buy", g.buy_order)
    IN
    IF buy_order.ret = None
    THEN [ret |-> None, calls |-> books \o buy_order.calls]
    ELSE
    LET sell_order == place_order(legs.sell, -amount, "limit", Some(sell_price),
                                  "spread_" \o spread_type \o "_sell", g.sell_order)
    IN
    IF sell_order.ret = None
    THEN LET cancel == cancel_order(Val(buy_order.ret).order_id, g.cancel)
         IN [ret |-> None,
             calls |-> books \o buy_order.calls \o sell_order.calls \o cancel.calls]
    ELSE [ret |-> Some([spread_type |-> spread_type,
                        buy_option  |-> legs.buy,
                        sell_option |-> legs.sell,
                        buy_order   |-> Val(buy_order.ret),
                        sell_order  |-> Val(sell_order.ret),
                        net_cost    |-> net_cost,
                        amount      |-> amount]),
          calls |-> books \o buy_order.calls \o sell_order.calls]

(***************************************************************************)
(* VolatilityAnalyzer: historical volatility                               *)
(*                                                                         *)
(* A price series is kept as its length and, for each window, the          *)
(* annualised standard deviation of its last `window` log returns (the     *)
(* number pandas computes), in tenths.                                     *)
(***************************************************************************)
\* blend weights 0.5 / 0.3 / 0.2 in tenths (config.py:28)
HV_WEIGHTS == <<5, 3, 2>>
\* the volatilities substituted for a window that gave none (0.8, 0.7, 0.6)
HV_FALLBACK == <<8, 7, 6>>

PriceSeries(n, vShort, vMedium, vLong) ==
    [len |-> n, short |-> vShort, medium |-> vMedium, long |-> vLong]

RollingStd(prices, window) ==
    CASE window = HV_WINDOW_SHORT  -> prices.short
      [] window = HV_WINDOW_MEDIUM -> prices.medium
      [] window = HV_WINDOW_LONG   -> prices.long

calculate_historical_volatility(prices, window) ==
    IF prices.len < window + 1 THEN None ELSE Some(RollingStd(prices, window))

get_historical_data(currency, resp) ==
    [calls |-> <<Request("public/get_tradingview_chart_data",
                         [instrument_name |-> <<currency, "PERPETUAL">>])>>,
     ret   |-> IF resp.error THEN None ELSE resp.result]

\* x or d
OrElse(o, d) == IF Truthy(o) THEN Val(o) ELSE d

\* the blend that gives up when a window could not be computed
calculate_weighted_historical_volatility_strict(currency, resp) ==
    LET hist_data == get_historical_data(currency, resp) IN
    IF hist_data.ret = None \/ ~Val(hist_data.ret).has_close
    THEN [ret |-> None, calls |-> hist_data.calls]
    ELSE
    LET prices    == Val(hist_data.ret).close
        hv_short  == calculate_historical_volatility(prices, HV_WINDOW_SHORT)
        hv_medium == calculate_historical_volatility(prices, HV_WINDOW_MEDIUM)
        hv_long   == calculate_historical_volatility(prices, HV_WINDOW_LONG)
    IN IF None \in {hv_short, hv_medium, hv_long}
       THEN [ret |-> None, calls |-> hist_data.calls]
       ELSE [ret   |-> Some(Val(hv_short) * HV_WEIGHTS[1] + Val(hv_medium) * HV_WEIGHTS[2]
                            + Val(hv_long) * HV_WEIGHTS[3]),
             calls |-> hist_data.calls]

\* resp: the gateway's chart response; its result is [has_close, close]
calculate_weighted_historical_volatility(currency, resp) ==
    LET hist_data == get_historical_data(currency, resp) IN
    IF hist_data.ret = None \/ ~Val(hist_data.ret).has_close
    THEN [ret |-> None, calls |-> hist_data.calls]
    ELSE
    LET prices    == Val(hist_data.ret).close
        hv_short  == calculate_historical_volatility(prices, HV_WINDOW_SHORT)
        hv_medium == calculate_historical_volatility(prices, HV_WINDOW_MEDIUM)
        hv_long   == calculate_historical_volatility(prices, HV_WINDOW_LONG)
        missing   == None \in {hv_short, hv_medium, hv_long}
        s == IF missing THEN OrElse(hv_short, HV_FALLBACK[1]) ELSE Val(hv_short)
        m == IF missing THEN OrElse(hv_medium, HV_FALLBACK[2]) ELSE Val(hv_medium)
        l == IF missing THEN OrElse(hv_long, HV_FALLBACK[3]) ELSE Val(hv_long)
    IN [ret   |-> Some(s * HV_WEIGHTS[1] + m * HV_WEIGHTS[2] + l * HV_WEIGHTS[3]),
        calls |-> hist_data.calls]

(***************************************************************************)
(* VolatilityAnalyzer: the scan                                            *)
(***************************************************************************)
\* the quote that reads a gateway error as an implied volatility of 0
get_option_volatility_zero(instrument_name, resp) ==
    [calls |-> <<Request("public/get_order_book",
                         [instrument_name |-> instrument_name, depth |-> QUOTE_DEPTH])>>,
     ret   |-> IF resp.error THEN Some(0) ELSE Val(resp.result).mark_iv]

\* resp: the gateway's order book for the instrument; its result is [mark_iv]
get_option_volatility(instrument_name, resp) ==
    [calls |-> <<Request("public/get_order_book",
                         [instrument_name |-> instrument_name, depth |-> QUOTE_DEPTH])>>,
     ret   |-> IF resp.error THEN None ELSE Val(resp.result).mark_iv]

get_available_options(currency, resp) ==
    [calls |-> <<Request("public/get_instruments", [currency |-> currency])>>,
     ret   |-> IF resp.error THEN <<>> ELSE Val(resp.result)]

\* iv / hv_weighted
Ratio(iv, hv) == <<iv, hv>>
RatioAbove(r, tenths) == r[1] * 10 > tenths * r[2]
RatioBelow(r, tenths) == r[1] * 10 < tenths * r[2]
RatioLess(r, q) == r[1] * q[2] < q[1] * r[2]

ClassifyInclusive(iv_hv_ratio) ==
    IF ~RatioBelow(iv_hv_ratio, IV_HV_HIGH_THRESHOLD) THEN "sell"
    ELSE IF ~RatioAbove(iv_hv_ratio, IV_HV_LOW_THRESHOLD) THEN "buy"
    ELSE "discard"

Classify(iv_hv_ratio) ==
    IF RatioAbove(iv_hv_ratio, IV_HV_HIGH_THRESHOLD) THEN "sell"
    ELSE IF RatioBelow(iv_hv_ratio, IV_HV_LOW_THRESHOLD) THEN "buy"
    ELSE "discard"

InExpiryWindowExclusive(days_to_expiry) ==
    MIN_DAYS_TO_EXPIRY < days_to_expiry /\ days_to_expiry < MAX_DAYS_TO_EXPIRY

InExpiryWindow(days_to_expiry) ==
    MIN_DAYS_TO_EXPIRY <= days_to_expiry /\ days_to_expiry <= MAX_DAYS_TO_EXPIRY

\* (datetime.fromtimestamp(expiration_timestamp / 1000) - now).days: a listed
\* option carries its expiration as the days this difference yields
DaysToExpiry(option) == option.expiration_days

Opportunity(type, option, iv, hv) ==
    [type |-> type, instrument |-> option.instrument_name, iv |-> iv, hv |-> hv,
     iv_hv_ratio |-> Ratio(iv, hv), days_to_expiry |-> DaysToExpiry(option),
     strike |-> option.strike, option_type |-> option.option_type]

\* the loop over the listed options, from the i-th on; quotes[i] is the
\* gateway's order book response for the i-th option
RECURSIVE ScanOptions(_, _, _, _)
ScanOptions(options, quotes, hv, i) ==
    IF i > Len(options) THEN [opps |-> <<>>, calls |-> <<>>, raised |-> ""]
    ELSE
    LET option == options[i]
        rest   == ScanOptions(options, quotes, hv, i + 1)
        abort  == [opps |-> <<>>, calls |-> <<>>, raised |-> "KeyError"]
    IN
    IF Lacks(option, "expiration_days") THEN abort
    ELSE IF ~InExpiryWindow(DaysToExpiry(option)) THEN rest
    ELSE IF Lacks(option, "instrument_name") THEN abort
    ELSE
    LET iv == get_option_volatility(option.instrument_name, quotes[i]) IN
    IF iv.ret = None
    THEN [opps |-> rest.opps, calls |-> iv.calls \o rest.calls, raised |-> rest.raised]
    ELSE
    LET type == Classify(Ratio(Val(iv.ret), hv)) IN
    IF type = "discard"
    THEN [opps |-> rest.opps, calls |-> iv.calls \o rest.calls, raised |-> rest.raised]
    ELSE IF Lacks(option, "strike") \/ Lacks(option, "option_type")
    THEN [opps |-> <<>>, calls |-> iv.calls, raised |-> "KeyError"]
    ELSE [opps  |-> <<Opportunity(type, option, Val(iv.ret), hv)>> \o rest.opps,
          calls |-> iv.calls \o rest.calls,
          raised |-> rest.raised]

\* x goes after every element that sorts before it or ties with it
RECURSIVE InsertByRatio(_, _, _)
InsertByRatio(sorted, x, reverse) ==
    IF sorted = <<>> THEN <<x>>
    ELSE
    LET stays == IF reverse
                 THEN ~RatioLess(Head(sorted).iv_hv_ratio, x.iv_hv_ratio)
                 ELSE ~RatioLess(x.iv_hv_ratio, Head(sorted).iv_hv_ratio)
    IN IF stays THEN <<Head(sorted)>> \o InsertByRatio(Tail(sorted), x, reverse)
       ELSE <<x>> \o sorted

\* sorted(ops, key=iv_hv_ratio, reverse=reverse): a stable sort
RECURSIVE SortByRatio(_, _)
SortByRatio(ops, reverse) ==
    IF ops = <<>> THEN <<>>
    ELSE InsertByRatio(SortByRatio(SubSeq(ops, 1, Len(ops) - 1), reverse),
                       ops[Len(ops)], reverse)

IsSell(o) == o.type = "sell"
IsBuy(o) == o.type = "buy"

SellOpportunitiesAscending(opportunities) ==
    SortByRatio(SelectSeq(opportunities, IsSell), FALSE)

SellOpportunities(opportunities) ==
    SortByRatio(SelectSeq(opportunities, IsSell), TRUE)

BuyOpportunities(opportunities) ==
    SortByRatio(SelectSeq(opportunities, IsBuy), FALSE)

\* the scan that goes on with the fallback volatilities when there is no blend
find_volatility_arbitrage_opportunities_anyway(currency, g) ==
    LET hv_weighted == calculate_weighted_historical_volatility(currency, g.history)
        hv      == IF hv_weighted.ret = None
                   THEN HV_FALLBACK[1] * HV_WEIGHTS[1] + HV_FALLBACK[2] * HV_WEIGHTS[2]
                        + HV_FALLBACK[3] * HV_WEIGHTS[3]
                   ELSE Val(hv_weighted.ret)
        options == get_available_options(currency, g.instruments)
        scan    == ScanOptions(options.ret, g.quotes, hv, 1)
    IN [ret    |-> SellOpportunities(scan.opps) \o BuyOpportunities(scan.opps),
        calls  |-> hv_weighted.calls \o options.calls \o scan.calls,
        raised |-> scan.raised]

\* g: the gateway's responses [history, instruments, quotes]
find_volatility_arbitrage_opportunities(currency, g) ==
    LET hv_weighted == calculate_weighted_historical_volatility(currency, g.history) IN
    IF hv_weighted.ret = None
    THEN [ret |-> <<>>, calls |-> hv_weighted.calls, raised |-> ""]
    ELSE
    LET options == get_available_options(currency, g.instruments)
        scan    == ScanOptions(options.ret, g.quotes, Val(hv_weighted.ret), 1)
    IN IF scan.raised # ""
       THEN [ret    |-> None,
             calls  |-> hv_weighted.calls \o options.calls \o scan.calls,
             raised |-> scan.raised]
       ELSE [ret    |-> SellOpportunities(scan.opps) \o BuyOpportunities(scan.opps),
             calls  |-> hv_weighted.calls \o options.calls \o scan.calls,
             raised |-> ""]

(***************************************************************************)
(* OptionsTrader.execute_volatility_arbitrage_strategy                     *)
(***************************************************************************)
IsOptionPosition(p) == EndsWithOptionKind(p.instrument_name)

ContractSize(currency) ==
    IF currency = "BTC" THEN BTC_CONTRACT_SIZE ELSE ETH_CONTRACT_SIZE

\* strike * STRIKE_SPREAD_PCT
StrikeDiff(strike) == (strike * STRIKE_SPREAD_PCT) \div 100

MaxPositionsReached(n) == n >= MAX_POSITIONS

\* the spread built for the best opportunity, whose name has its four parts
BuildForOpportunity(best_opportunity, contract_size, g) ==
    LET parts       == best_opportunity.instrument
        currency    == parts[1]
        expiry      == parts[2]
        strike      == parts[3].value
        option_type == parts[4]
        strike_diff == StrikeDiff(strike)
    IN
    IF best_opportunity.type = "sell"
    THEN IF option_type = "C"
         THEN create_vertical_spread(currency, "bear_call", strike,
                                     strike + strike_diff, expiry, contract_size, g)
         ELSE create_vertical_spread(currency, "bear_put", strike - strike_diff,
                                     strike, expiry, contract_size, g)
    ELSE IF option_type = "C"
         THEN create_vertical_spread(currency, "bull_call", strike,
                                     strike + strike_diff, expiry, contract_size, g)
         ELSE create_vertical_spread(currency, "bull_put", strike - strike_diff,
                                     strike, expiry, contract_size, g)

\* the opportunity at the end of the list
BestOpportunityLast(opportunities) == opportunities[Len(opportunities)]

\* best_opportunity = opportunities[0]
BestOpportunity(opportunities) == opportunities[1]

\* parts[1], parts[2] and parts[3] of a name that split("-") cuts into fewer
\* than four parts raise IndexError
TooFewParts(instrument) == Len(instrument) < 4

\* g: the gateway's responses [positions, scan, build]
execute_volatility_arbitrage_strategy(currency, g) ==
    LET positions        == get_positions(currency, g.positions)
        option_positions == SelectSeq(positions.ret, IsOptionPosition)
    IN
    IF MaxPositionsReached(Len(option_positions))
    THEN [ret    |-> [status |-> "max_positions_reached",
                      positions |-> Len(option_positions)],
          calls  |-> positions.calls,
          raised |-> ""]
    ELSE
    LET opportunities == find_volatility_arbitrage_opportunities(currency, g.scan) IN
    IF opportunities.raised # ""
    THEN [ret    |-> None,
          calls  |-> positions.calls \o opportunities.calls,
          raised |-> opportunities.raised]
    ELSE IF opportunities.ret = <<>>
    THEN [ret    |-> [status |-> "no_opportunities"],
          calls  |-> positions.calls \o opportunities.calls,
          raised |-> ""]
    ELSE
    LET best_opportunity == BestOpportunity(opportunities.ret) IN
    IF TooFewParts(best_opportunity.instrument)
    THEN [ret    |-> None,
          calls  |-> positions.calls \o opportunities.calls,
          raised |-> "IndexError"]
    ELSE
    LET spread_result == BuildForOpportunity(best_opportunity,
                                             ContractSize(currency), g.build)
    IN [ret    |-> IF spread_result.ret # None
                   THEN [status |-> "success", opportunity |-> best_opportunity,
                         spread |-> Val(spread_result.ret)]
                   ELSE [status |-> "failed", opportunity |-> best_opportunity,
                         reason |-> "Echec de la creation du spread"],
        calls  |-> positions.calls \o opportunities.calls \o spread_result.calls,
        raised |-> ""]

(***************************************************************************)
(* OptionsTrader.manage_positions                                          *)
(*                                                                         *)
(* A position record is [instrument_name, average_price, mark_price, size, *)
(* direction]: the name is the tuple of its parts (<<>> when the record    *)
(* has none), the numbers are optional, the direction is a string ("" when *)
(* the record has none).                                                   *)
(***************************************************************************)
\* all([instrument, entry_price, current_price, size, direction])
AllPresent(position) ==
    /\ position.instrument_name # <<>>
    /\ Truthy(position.average_price)
    /\ Truthy(position.mark_price)
    /\ Truthy(position.size)
    /\ position.direction # ""

\* pnl_pct as the ratio <<numerator, entry_price>>
PnlPct(position) ==
    LET entry_price   == Val(position.average_price)
        current_price == Val(position.mark_price)
    IN IF position.direction = "buy"
       THEN <<current_price - entry_price, entry_price>>
       ELSE <<entry_price - current_price, entry_price>>

\* pnl_pct >= pct / 100 and pnl_pct <= pct / 100, the entry price being positive
PnlAtLeast(pnl_pct, pct) == pnl_pct[1] * 100 >= pct * pnl_pct[2]
PnlAtMost(pnl_pct, pct) == pnl_pct[1] * 100 <= pct * pnl_pct[2]

\* the parse failure taken for an expiry that is near
NearExpiryOnFailure(instrument) ==
    /\ Len(instrument) >= 2
    /\ Len(instrument) = 4
    /\ (instrument[2].ok => instrument[2].days <= EXPIRY_CLOSE_DAYS)

\* the expiry rule: the second part of the name read as DDMonYY.  A name of
\* four parts carries an expiry text there; the second part of a shorter
\* name is no date.
NearExpiry(instrument) ==
    /\ Len(instrument) >= 2
    /\ Len(instrument) = 4
    /\ instrument[2].ok
    /\ instrument[2].days <= EXPIRY_CLOSE_DAYS

\* the action selected for a complete position, "" for none
ExitAction(position) ==
    LET pnl_pct == PnlPct(position)
        byPnl   == IF PnlAtLeast(pnl_pct, PROFIT_TARGET_PCT) THEN "take_profit"
                   ELSE IF PnlAtMost(pnl_pct, -STOP_LOSS_PCT) THEN "stop_loss"
                   ELSE ""
    IN IF NearExpiry(position.instrument_name) THEN "close_to_expiry" ELSE byPnl

CloseAmountUnsigned(position) == Val(position.size)

\* -size if direction == "buy" else size
CloseAmount(position) ==
    IF position.direction = "buy" THEN -Val(position.size) ELSE Val(position.size)

\* the loop that ends at the first incomplete record
RECURSIVE ReviewPositionsBreak(_, _, _)
ReviewPositionsBreak(option_positions, orders, i) ==
    IF i > Len(option_positions) THEN [actions |-> <<>>, calls |-> <<>>]
    ELSE
    LET position == option_positions[i]
        rest     == ReviewPositionsBreak(option_positions, orders, i + 1)
    IN
    IF ~AllPresent(position) THEN [actions |-> <<>>, calls |-> <<>>]
    ELSE
    LET action == ExitAction(position) IN
    IF action = "" THEN rest
    ELSE
    LET close_order == place_order(position.instrument_name, CloseAmount(position),
                                   "market", None, "close_" \o action, orders[i])
    IN [actions |-> rest.actions, calls |-> close_order.calls \o rest.calls]

\* the loop over the option positions, from the i-th on; orders[i] is the
\* gateway's response to the closing order of the i-th option position
RECURSIVE ReviewPositions(_, _, _)
ReviewPositions(option_positions, orders, i) ==
    IF i > Len(option_positions) THEN [actions |-> <<>>, calls |-> <<>>]
    ELSE
    LET position == option_positions[i]
        rest     == ReviewPositions(option_positions, orders, i + 1)
    IN
    IF ~AllPresent(position) THEN rest
    ELSE
    LET action == ExitAction(position) IN
    IF action = "" THEN rest
    ELSE
    LET close_order == place_order(position.instrument_name, CloseAmount(position),
                                   "market", None, "close_" \o action, orders[i])
    IN [actions |-> IF close_order.ret = None THEN rest.actions
                    ELSE <<[instrument |-> position.instrument_name,
                            action     |-> action,
                            pnl_pct    |-> PnlPct(position),
                            order      |-> Val(close_order.ret)]>> \o rest.actions,
        calls   |-> close_order.calls \o rest.calls]

\* g: the gateway's responses [positions, orders]
manage_positions(currency, g) ==
    LET positions        == get_positions(currency, g.positions)
        option_positions == SelectSeq(positions.ret, IsOptionPosition)
        review           == ReviewPositions(option_positions, g.orders, 1)
    IN [ret |-> review.actions, calls |-> positions.calls \o review.calls]

(***************************************************************************)
(* Inputs                                                                  *)
(***************************************************************************)
\* the most positions an account holds (above MAX_POSITIONS)
MaxAccount == 6
\* the most options one listing of a scan holds
MaxListing == 3
\* the most positions a reviewed account holds
MaxReview == 2
\* the most records of a listing or of an account that has malformed records
MaxMalformed == 2

Currencies == {"BTC", "ETH"}

SeqsUpTo(S, n) == UNION {[1..k -> S] : k \in 0..n}

Position(name, entry, mark, size, direction) ==
    [instrument_name |-> name, average_price |-> entry, mark_price |-> mark,
     size |-> size, direction |-> direction]

OptionPosition ==
    Position(InstrumentName("BTC", ExpiryText(TRUE, 10), StrikeText(100, FALSE), "C"),
             Some(100), Some(110), Some(1), "buy")

FuturePosition ==
    Position(<<"BTC", "PERPETUAL">>, Some(100), Some(110), Some(1), "buy")

\* n option positions, then m positions that are no options
AccountOf(n, m) ==
    [i \in 1..(n + m) |-> IF i <= n THEN OptionPosition ELSE FuturePosition]

Accounts == {AccountOf(n, m) : n \in 0..MaxAccount, m \in 0..1}

Book(bids, asks) == OkResp([bids |-> bids, asks |-> asks])
OrderAccepted(id) == OkResp([order_id |-> id])

\* one side of a book: empty, or its best price
Sides(prices) == {<<>>} \cup {<<p>> : p \in prices}

BuildEnvs(buyBooks, sellBooks) ==
    [buy_book   : buyBooks,
     sell_book  : sellBooks,
     buy_order  : {ErrorResp, OrderAccepted(1)},
     sell_order : {ErrorResp, OrderAccepted(2)},
     cancel     : {ErrorResp, OkResp([order_id |-> 1])}]

Listed(currency, days, strike, kind) ==
    [instrument_name |-> InstrumentName(currency, ExpiryText(TRUE, days),
                                        StrikeText(strike, FALSE), kind),
     expiration_days |-> days,
     strike          |-> strike,
     option_type     |-> IF kind = "C" THEN "call" ELSE "put"]

Quote(mark_iv) == OkResp([mark_iv |-> mark_iv])

History(prices) == OkResp([has_close |-> TRUE, close |-> prices])

\* a slot of a listing: an option and the quote the gateway gives for it
ScanEnvs(histories, slots, n) ==
    {[history |-> h, instruments |-> i, quotes |-> q] :
        h \in histories,
        <<i, q>> \in {<<ErrorResp, <<>> >>} \cup
                     {<<OkResp([k \in 1..Len(l) |-> l[k].option]),
                        [k \in 1..Len(l) |-> l[k].quote]>> : l \in SeqsUpTo(slots, n)}}

(***************************************************************************)
(* The strategy call on an account                                         *)
(***************************************************************************)
ExecPrices == {120, 1700}

ExecBuildEnvs ==
    BuildEnvs({ErrorResp} \cup {Book(<<>>, a) : a \in Sides(ExecPrices)},
              {ErrorResp} \cup {Book(b, <<>>) : b \in Sides(ExecPrices)})

ExecSlots(currency) ==
    {[option |-> Listed(currency, 10, 100, kind), quote |-> q] :
        kind \in {"C", "P"},
        q \in {ErrorResp} \cup {Quote(Some(iv)) : iv \in {30, 60, 85}}}

ExecScanEnvs(currency) ==
    ScanEnvs({ErrorResp, History(PriceSeries(40, 6, 6, 6))}, ExecSlots(currency), 1)

\* seconds between two cycles, and between two position reviews
CHECK_INTERVAL == 3600
POSITION_CHECK_INTERVAL == 14400

\* TradingSystem.__init__: not running, no position review made yet; run() has
\* not been called (pc), no session, and the clock (now) reads a time at
\* which a first review is due.  Beside the fields of the object the record
\* keeps what the run has done: the cycles begun, the steps of the cycle in
\* flight and how it ended, how the cycle before it ended, whether stop()
\* was called, the cycle during which it was called (0: during none), and
\* what ended the loop.
TradingSystem ==
    [running |-> FALSE, last_position_check |-> 0, pc |-> "new",
     session |-> "none", now |-> POSITION_CHECK_INTERVAL,
     cycle |-> 0, steps |-> <<>>, outcome |-> "none", previous |-> "none",
     stop_called |-> FALSE, stopped_in |-> 0, ended_by |-> "none"]

\* the capital a paper-trading test starts with: 300 USD, in hundredths
CAPITAL_TOTAL == 30000

\* PaperTradingTest.__init__: the capital is the initial capital, no paper
\* position is open and no trade was made (trades: len(trade_history))
PaperTradingTest ==
    [initial_capital |-> CAPITAL_TOTAL, current_capital |-> CAPITAL_TOTAL,
     paper_positions |-> <<>>, trades |-> 0]

Init ==
    /\ account \in Accounts
    /\ op = [name |-> "none"]
    /\ env = [name |-> "none"]
    /\ ret = None
    /\ log = <<>>
    /\ raised = ""
    /\ system = TradingSystem
    /\ paper = PaperTradingTest

\* no call is in progress: the handlers run one at a time, to completion
Idle == op.name = "none"

\* the caller has taken the result of the call
Return ==
    /\ ~Idle
    /\ op' = [name |-> "none"]
    /\ env' = [name |-> "none"]
    /\ ret' = None
    /\ log' = <<>>
    /\ raised' = ""
    /\ UNCHANGED <<account, system, paper>>

ExecuteStrategy ==
    /\ Idle
    /\ \E currency \in Currencies :
       \E positions \in {ErrorResp, OkResp(account)} :
       \E scan \in ExecScanEnvs(currency) :
       \E build \in ExecBuildEnvs :
        LET g == [positions |-> positions, scan |-> scan, build |-> build] IN
        \E r \in {execute_volatility_arbitrage_strategy(currency, g)} :
           /\ op' = [name |-> "execute", currency |-> currency]
           /\ env' = g
           /\ ret' = r.ret
           /\ log' = r.calls
           /\ raised' = r.raised
           /\ UNCHANGED <<account, system, paper>>

Next == ExecuteStrategy \/ Return

Spec == Init /\ [][Next]_vars

(***************************************************************************)
(* TradingSystem.run: the trading loop, one step per awaited call          *)
(***************************************************************************)
\* the most cycles a run begins
MaxCycles == 5

\* the awaited calls of a cycle, in order
CyclePhases ==
    {"account", "positions", "review_BTC", "review_ETH", "execute_BTC", "execute_ETH"}

InCycle(sys) == sys.pc \in CyclePhases

\* the seconds the awaited calls of a cycle take beyond the sleep
CycleTimes == {0, 1800}

\* while self.running
LoopConditionDeaf(sys) == TRUE

LoopCondition(sys) == sys.running

\* current_time - self.last_position_check >= POSITION_CHECK_INTERVAL
ReviewDue(sys) == sys.now - sys.last_position_check >= POSITION_CHECK_INTERVAL

InitRun ==
    /\ account = <<>>
    /\ op = [name |-> "none"]
    /\ env = [name |-> "none"]
    /\ ret = None
    /\ log = <<>>
    /\ raised = ""
    /\ system = TradingSystem
    /\ paper = PaperTradingTest

\* run() is called: initialize() opens the session and authenticates
Initialize ==
    /\ system.pc = "new"
    /\ system' = [system EXCEPT !.pc = "initializing", !.session = "open"]
    /\ UNCHANGED <<account, op, env, ret, log, raised, paper>>

\* initialize() returns: run returns when it failed, else sets running
StartRunning ==
    /\ system.pc = "initializing"
    /\ \E auth_result \in BOOLEAN :
          system' = IF auth_result
                    THEN [system EXCEPT !.running = TRUE, !.pc = "loop"]
                    ELSE [system EXCEPT !.pc = "returned"]
    /\ UNCHANGED <<account, op, env, ret, log, raised, paper>>

\* the test of the while loop: a new cycle begins, or the loop ends
LoopTest ==
    /\ system.pc = "loop"
    /\ IF LoopCondition(system)
       THEN /\ system.cycle < MaxCycles
            /\ system' = [system EXCEPT !.pc = "account", !.cycle = @ + 1,
                                        !.steps = <<>>, !.outcome = "in_flight",
                                        !.previous = system.outcome]
       ELSE system' = [system EXCEPT !.pc = "finally", !.ended_by = "condition"]
    /\ UNCHANGED <<account, op, env, ret, log, raised, paper>>

\* check_account_status: without a summary the cycle returns at once
CheckAccountStatus ==
    /\ system.pc = "account"
    /\ \E account_status \in BOOLEAN :
          system' = IF account_status
                    THEN [system EXCEPT !.pc = "positions", !.steps = Append(@, "account")]
                    ELSE [system EXCEPT !.pc = "sleep", !.outcome = "no_account"]
    /\ UNCHANGED <<account, op, env, ret, log, raised, paper>>

\* check_open_positions, then the test of the review interval
CheckOpenPositions ==
    /\ system.pc = "positions"
    /\ system' = [system EXCEPT
                     !.pc = IF ReviewDue(system) THEN "review_BTC" ELSE "execute_BTC",
                     !.steps = Append(@, "positions")]
    /\ UNCHANGED <<account, op, env, ret, log, raised, paper>>

\* manage_positions for BTC, then for ETH, then the time of the review is kept
ManageCycle ==
    /\ system.pc \in {"review_BTC", "review_ETH"}
    /\ system' = IF system.pc = "review_BTC"
                 THEN [system EXCEPT !.pc = "review_ETH", !.steps = Append(@, "review_BTC")]
                 ELSE [system EXCEPT !.pc = "execute_BTC",
                                     !.steps = Append(@, "review_ETH"),
                                     !.last_position_check = system.now]
    /\ UNCHANGED <<account, op, env, ret, log, raised, paper>>

\* execute_volatility_arbitrage_strategy for BTC, then for ETH
ExecuteCycle ==
    /\ system.pc \in {"execute_BTC", "execute_ETH"}
    /\ system' = IF system.pc = "execute_BTC"
                 THEN [system EXCEPT !.pc = "execute_ETH", !.steps = Append(@, "execute_BTC")]
                 ELSE [system EXCEPT !.pc = "sleep",
                                     !.steps = Append(@, "execute_ETH"),
                                     !.outcome = "completed"]
    /\ UNCHANGED <<account, op, env, ret, log, raised, paper>>

\* the exception of a cycle that leaves the loop
ExceptionUncaught(sys) ==
    [sys EXCEPT !.pc = "finally", !.outcome = "exception", !.ended_by = "error"]

\* except Exception inside the loop: the error is logged, the sleep follows
ExceptionCaught(sys) == [sys EXCEPT !.pc = "sleep", !.outcome = "exception"]

\* an awaited call of the cycle raises an Exception
CycleRaises ==
    /\ InCycle(system)
    /\ system' = ExceptionCaught(system)
    /\ UNCHANGED <<account, op, env, ret, log, raised, paper>>

\* an await of the loop raises what the inner try does not catch: any
\* exception at the sleep, a KeyboardInterrupt or a cancellation in the
\* cycle; the outer handlers log it and the finally clause follows
LoopRaises ==
    /\ InCycle(system) \/ system.pc = "sleep"
    /\ system' = [system EXCEPT !.pc = "finally", !.ended_by = "error",
                                !.outcome = IF InCycle(system) THEN "interrupted" ELSE @]
    /\ UNCHANGED <<account, op, env, ret, log, raised, paper>>

\* asyncio.sleep(CHECK_INTERVAL)
Sleep ==
    /\ system.pc = "sleep"
    /\ \E taken \in CycleTimes :
          system' = [system EXCEPT !.pc = "loop", !.now = @ + CHECK_INTERVAL + taken]
    /\ UNCHANGED <<account, op, env, ret, log, raised, paper>>

\* the finally clause of run
Finally ==
    /\ system.pc = "finally"
    /\ system' = [system EXCEPT !.pc = "done", !.running = FALSE, !.session = "closed"]
    /\ UNCHANGED <<account, op, env, ret, log, raised, paper>>

\* stop(), called from outside the loop while run is at an await or before
\* run is called
Stop ==
    /\ system.pc \notin {"done", "returned"}
    /\ ~system.stop_called
    /\ system' = [system EXCEPT
                     !.running = FALSE,
                     !.stop_called = TRUE,
                     !.stopped_in = IF InCycle(system) THEN system.cycle ELSE 0]
    /\ UNCHANGED <<account, op, env, ret, log, raised, paper>>

\* the steps of run itself
RunStep ==
    \/ Initialize
    \/ StartRunning
    \/ LoopTest
    \/ CheckAccountStatus
    \/ CheckOpenPositions
    \/ ManageCycle
    \/ ExecuteCycle
    \/ CycleRaises
    \/ LoopRaises
    \/ Sleep
    \/ Finally

NextRun == RunStep \/ Stop

\* every awaited call returns or raises
SpecRun == InitRun /\ [][NextRun]_vars /\ WF_vars(RunStep)

(***************************************************************************)
(* A spread build on given arguments, books and order outcomes             *)
(***************************************************************************)
BuildPrices == {120, 150, 300, 1700}
BuildAmounts == {BTC_CONTRACT_SIZE, ETH_CONTRACT_SIZE}

BuildBooks ==
    {ErrorResp} \cup {Book(b, a) : b \in Sides(BuildPrices), a \in Sides(BuildPrices)}

InitBuild ==
    /\ account = <<>>
    /\ op = [name |-> "none"]
    /\ env = [name |-> "none"]
    /\ ret = None
    /\ log = <<>>
    /\ raised = ""
    /\ system = TradingSystem
    /\ paper = PaperTradingTest

CreateVerticalSpread ==
    /\ Idle
    /\ \E currency \in Currencies :
       \E spread_type \in SPREAD_TYPES \cup {"butterfly"} :
       \E amount \in BuildAmounts :
       \E g \in BuildEnvs(BuildBooks, BuildBooks) :
        \E r \in {create_vertical_spread(currency, spread_type, 100, 105,
                                          ExpiryText(TRUE, 10), amount, g)} :
           /\ op' = [name |-> "create_vertical_spread", currency |-> currency,
                     spread_type |-> spread_type, strike1 |-> 100, strike2 |-> 105,
                     expiry |-> ExpiryText(TRUE, 10), amount |-> amount]
           /\ env' = g
           /\ ret' = r.ret
           /\ log' = r.calls
           /\ raised' = ""
           /\ UNCHANGED <<account, system, paper>>

NextBuild == CreateVerticalSpread \/ Return

SpecBuild == InitBuild /\ [][NextBuild]_vars

(***************************************************************************)
(* A position review on an account                                         *)
(***************************************************************************)
Held(days, mark, size, direction) ==
    Position(InstrumentName("BTC", ExpiryText(TRUE, days), StrikeText(100, FALSE), "C"),
             Some(100), Some(mark), Some(size), direction)

\* entered at 100: far from expiry at every mark around the two thresholds,
\* near expiry and with an expiry that does not parse at some of them, two
\* sizes; records that lack a field; a position that is no option
ReviewedPositions ==
    {Held(3, mark, 1, d) : mark \in {0, 50, 51, 149, 150}, d \in {"buy", "sell"}}
    \cup {Held(days, mark, 3, "buy") : days \in {1, 2}, mark \in {0, 50, 100, 150}}
    \cup {Held(2, 100, 3, "sell")}
    \cup {Position(InstrumentName("BTC", ExpiryText(FALSE, 0), StrikeText(100, FALSE), "P"),
                   Some(100), Some(mark), Some(1), "buy") : mark \in {50, 100, 150}}
    \cup {Position(InstrumentName("BTC", ExpiryText(TRUE, 2), StrikeText(100, FALSE), "C"),
                   Some(100), None, Some(1), "buy"),
          Position(InstrumentName("BTC", ExpiryText(TRUE, 2), StrikeText(100, FALSE), "C"),
                   Some(100), Some(150), None, ""),
          Position(InstrumentName("BTC", ExpiryText(TRUE, 2), StrikeText(100, FALSE), "C"),
                   None, Some(150), Some(1), "sell"),
          Position(<<>>, Some(100), Some(150), Some(1), "buy"),
          FuturePosition}

InitReview ==
    /\ account \in SeqsUpTo(ReviewedPositions, MaxReview)
    /\ op = [name |-> "none"]
    /\ env = [name |-> "none"]
    /\ ret = None
    /\ log = <<>>
    /\ raised = ""
    /\ system = TradingSystem
    /\ paper = PaperTradingTest

ManagePositions ==
    /\ Idle
    /\ \E currency \in {"BTC"} :
       \E positions \in {ErrorResp, OkResp(account)} :
       \E orders \in [1..Len(account) -> {ErrorResp, OrderAccepted(7)}] :
        LET g == [positions |-> positions, orders |-> orders] IN
        \E r \in {manage_positions(currency, g)} :
           /\ op' = [name |-> "manage_positions", currency |-> currency]
           /\ env' = g
           /\ ret' = r.ret
           /\ log' = r.calls
           /\ raised' = ""
           /\ UNCHANGED <<account, system, paper>>

NextReview == ManagePositions \/ Return

SpecReview == InitReview /\ [][NextReview]_vars

(***************************************************************************)
(* A scan on a listing and its quotes                                      *)
(***************************************************************************)
\* blended volatility 0.60, and the constant series, whose volatility is 0
ScanHistories ==
    {ErrorResp, History(PriceSeries(40, 6, 6, 6)), History(PriceSeries(40, 0, 0, 0))}

\* a call 7 days from expiry under every quote, around both thresholds
\* (0.42 / 0.60 = 0.7, 0.78 / 0.60 = 1.3); options at and beyond the bounds
\* of the expiry window; a put
ScanSlots ==
    {[option |-> Listed("BTC", 7, 100, "C"), quote |-> q] :
        q \in {ErrorResp, Quote(None)}
              \cup {Quote(Some(iv)) : iv \in {30, 40, 42, 60, 78, 85, 90}}}
    \cup {[option |-> Listed("BTC", days, 100, "C"), quote |-> Quote(Some(85))] :
             days \in {6, 21, 22}}
    \cup {[option |-> Listed("BTC", 7, 100, "P"), quote |-> Quote(Some(30))]}

InitScan ==
    /\ account = <<>>
    /\ op = [name |-> "none"]
    /\ env = [name |-> "none"]
    /\ ret = None
    /\ log = <<>>
    /\ raised = ""
    /\ system = TradingSystem
    /\ paper = PaperTradingTest

FindOpportunities ==
    /\ Idle
    /\ \E currency \in {"BTC"} :
       \E g \in ScanEnvs(ScanHistories, ScanSlots, MaxListing) :
        \E r \in {find_volatility_arbitrage_opportunities(currency, g)} :
           /\ op' = [name |-> "find_opportunities", currency |-> currency]
           /\ env' = g
           /\ ret' = r.ret
           /\ log' = r.calls
           /\ raised' = r.raised
           /\ UNCHANGED <<account, system, paper>>

NextScan == FindOpportunities \/ Return

SpecScan == InitScan /\ [][NextScan]_vars

(***************************************************************************)
(* The blended volatility of a price history                               *)
(***************************************************************************)
\* the points asked for: max(HV_WINDOW_LONG, 30) + 10
HISTORY_LIMIT == 40

\* no point, and the lengths around the three windows, up to the limit
HistoryLengths ==
    {0, HISTORY_LIMIT}
    \cup {w + d : w \in {HV_WINDOW_SHORT, HV_WINDOW_MEDIUM, HV_WINDOW_LONG}, d \in {0, 1}}

\* the volatility of a window, in tenths (0 for a constant price)
WindowVols == {0, 6, 9}

BlendHistories ==
    {ErrorResp, OkResp([has_close |-> FALSE, close |-> PriceSeries(0, 0, 0, 0)])}
    \cup {History(PriceSeries(n, s, m, l)) :
             n \in HistoryLengths, s \in WindowVols, m \in WindowVols, l \in WindowVols}

InitBlend ==
    /\ account = <<>>
    /\ op = [name |-> "none"]
    /\ env = [name |-> "none"]
    /\ ret = None
    /\ log = <<>>
    /\ raised = ""
    /\ system = TradingSystem
    /\ paper = PaperTradingTest

BlendVolatility ==
    /\ Idle
    /\ \E currency \in Currencies :
       \E resp \in BlendHistories :
        \E r \in {calculate_weighted_historical_volatility(currency, resp)} :
           /\ op' = [name |-> "blend", currency |-> currency]
           /\ env' = resp
           /\ ret' = r.ret
           /\ log' = r.calls
           /\ raised' = ""
           /\ UNCHANGED <<account, system, paper>>

NextBlend == BlendVolatility \/ Return

SpecBlend == InitBlend /\ [][NextBlend]_vars

(***************************************************************************)
(* The three calls on records the exchange sends with a field missing or   *)
(* with a name that has fewer than four parts                              *)
(***************************************************************************)
\* a listed option without the named key
Without(option, key) == [k \in DOMAIN option \ {key} |-> option[k]]

\* an overpriced and an underpriced option; one more whose quote fails;
\* records that lack a key; a listed instrument whose name has two parts
MalformedSlots(currency) ==
    {[option |-> Listed(currency, 10, 100, "C"), quote |-> q] :
        q \in {ErrorResp, Quote(Some(85)), Quote(Some(30))}}
    \cup {[option |-> Without(Listed(currency, 10, 100, "C"), key),
           quote  |-> Quote(Some(85))] :
             key \in {"expiration_days", "strike", "option_type"}}
    \cup {[option |-> [Listed(currency, 10, 100, "C") EXCEPT
                          !.instrument_name = <<currency, "PERPETUAL">>],
           quote  |-> Quote(Some(90))]}

MalformedScanEnvs(currency, n) ==
    ScanEnvs({ErrorResp, History(PriceSeries(40, 6, 6, 6))}, MalformedSlots(currency), n)

MalformedBuildEnvs ==
    BuildEnvs({Book(<<>>, <<120>>)}, {Book(<<120>>, <<>>)})

\* records of the account: complete ones that are closed or kept, records
\* that lack a field or the whole name, a name of two parts ending in C
MalformedPositions ==
    {Held(3, 150, 1, "buy"), Held(3, 100, 1, "sell"), Held(1, 100, 3, "buy")}
    \cup {Position(InstrumentName("BTC", ExpiryText(TRUE, 1), StrikeText(100, FALSE), "C"),
                   Some(100), None, Some(1), "buy"),
          Position(InstrumentName("BTC", ExpiryText(TRUE, 1), StrikeText(100, FALSE), "C"),
                   None, Some(150), Some(1), "buy"),
          Position(InstrumentName("BTC", ExpiryText(TRUE, 1), StrikeText(100, FALSE), "C"),
                   Some(100), Some(150), None, "buy"),
          Position(InstrumentName("BTC", ExpiryText(TRUE, 1), StrikeText(100, FALSE), "C"),
                   Some(100), Some(150), Some(1), ""),
          Position(<<>>, Some(100), Some(150), Some(1), "buy"),
          Position(<<"BTC", "C">>, Some(100), Some(150), Some(1), "buy")}

InitMalformed ==
    /\ account \in SeqsUpTo(MalformedPositions, MaxMalformed)
    /\ op = [name |-> "none"]
    /\ env = [name |-> "none"]
    /\ ret = None
    /\ log = <<>>
    /\ raised = ""
    /\ system = TradingSystem
    /\ paper = PaperTradingTest

ScanMalformed ==
    /\ Idle
    /\ \E currency \in Currencies :
       \E g \in MalformedScanEnvs(currency, MaxMalformed) :
        \E r \in {find_volatility_arbitrage_opportunities(currency, g)} :
           /\ op' = [name |-> "find_opportunities", currency |-> currency]
           /\ env' = g
           /\ ret' = r.ret
           /\ log' = r.calls
           /\ raised' = r.raised
           /\ UNCHANGED <<account, system, paper>>

ExecuteMalformed ==
    /\ Idle
    /\ \E currency \in Currencies :
       \E scan \in MalformedScanEnvs(currency, 1) :
       \E build \in MalformedBuildEnvs :
        LET g == [positions |-> OkResp(account), scan |-> scan, build |-> build] IN
        \E r \in {execute_volatility_arbitrage_strategy(currency, g)} :
           /\ op' = [name |-> "execute", currency |-> currency]
           /\ env' = g
           /\ ret' = r.ret
           /\ log' = r.calls
           /\ raised' = r.raised
           /\ UNCHANGED <<account, system, paper>>

ReviewMalformed ==
    /\ Idle
    /\ \E positions \in {ErrorResp, OkResp(account)} :
       \E orders \in [1..Len(account) -> {ErrorResp, OrderAccepted(7)}] :
        LET g == [positions |-> positions, orders |-> orders] IN
        \E r \in {manage_positions("BTC", g)} :
           /\ op' = [name |-> "manage_positions", currency |-> "BTC"]
           /\ env' = g
           /\ ret' = r.ret
           /\ log' = r.calls
           /\ raised' = ""
           /\ UNCHANGED <<account, system, paper>>

NextMalformed == ScanMalformed \/ ExecuteMalformed \/ ReviewMalformed \/ Return

SpecMalformed == InitMalformed /\ [][NextMalformed]_vars

(***************************************************************************)
(* What a state shows of the last call                                     *)
(***************************************************************************)
IsOrder(req) == req.method \in {"private/buy", "private/sell"}
IsCancel(req) == req.method = "private/cancel"
IsScanRequest(req) ==
    req.method \in {"public/get_tradingview_chart_data", "public/get_instruments",
                    "public/get_order_book"}

Orders(calls) == SelectSeq(calls, IsOrder)
Cancels(calls) == SelectSeq(calls, IsCancel)

Building == op.name = "create_vertical_spread"
Executing == op.name = "execute"

\* both books of a build answer, with the side each leg needs
Quoted(g) ==
    /\ ~g.buy_book.error /\ Val(g.buy_book.result).asks # <<>>
    /\ ~g.sell_book.error /\ Val(g.sell_book.result).bids # <<>>

BestAsk(g) == Val(g.buy_book.result).asks[1]
BestBid(g) == Val(g.sell_book.result).bids[1]

\* the buy leg was accepted by the exchange and the sell leg was refused
BuyOnly(calls, g) ==
    /\ Len(Orders(calls)) = 2
    /\ ~g.buy_order.error
    /\ g.sell_order.error

\* no order of the call was accepted by the exchange
NothingCommitted(calls, g) ==
    \/ Orders(calls) = <<>>
    \/ (Len(Orders(calls)) = 1 /\ g.buy_order.error)

(***************************************************************************)
(* Strategy calls and reviews on an account the exchange keeps: every      *)
(* order the exchange accepts is filled, unless its cancel is accepted     *)
(***************************************************************************)
\* the most lots of one instrument the account comes to hold
MaxLots == 1
\* the most options a listing offers to a strategy call of a cycle
MaxOffered == 2

\* the i-th option position the account holds before the first cycle
Preexisting(i) ==
    Position(InstrumentName("BTC", ExpiryText(TRUE, 10), StrikeText(400 + i, FALSE), "C"),
             Some(120), Some(120), Some(BTC_CONTRACT_SIZE), "buy")

\* the account holds no position, or is one or two short of MAX_POSITIONS
CycleAccounts ==
    {[i \in 1..n |-> Preexisting(i)] : n \in {0, MAX_POSITIONS - 2, MAX_POSITIONS - 1}}

\* an overpriced and an underpriced call at 100, a more overpriced one at 200
CycleSlots ==
    {[option |-> Listed("BTC", 10, 100, "C"), quote |-> Quote(Some(85))],
     [option |-> Listed("BTC", 10, 100, "C"), quote |-> Quote(Some(30))],
     [option |-> Listed("BTC", 10, 200, "C"), quote |-> Quote(Some(90))]}

CycleScanEnvs == ScanEnvs({History(PriceSeries(40, 6, 6, 6))}, CycleSlots, MaxOffered)

\* both books answer within the budget, or the book of the sell leg has no
\* bid; the answers to the requests that are sent: a response that no
\* request asks for is the accepting one
CycleBuildEnvs ==
    {g \in BuildEnvs({Book(<<120>>, <<120>>)},
                     {Book(<<120>>, <<120>>), Book(<<>>, <<120>>)}) :
        /\ ~Quoted(g) => ~g.buy_order.error
        /\ g.buy_order.error => ~g.sell_order.error
        /\ ~g.sell_order.error => ~g.cancel.error}

\* the orders of a call that the exchange fills: the accepted ones, but for
\* a buy leg whose cancel was accepted
FilledOrders(calls, build) ==
    LET orders == Orders(calls) IN
    IF Len(orders) = 0 \/ build.buy_order.error THEN <<>>
    ELSE IF Len(orders) = 1 THEN orders
    ELSE IF ~build.sell_order.error THEN orders
    ELSE IF build.cancel.error THEN <<orders[1]>>
    ELSE <<>>

\* the lots a position stands for, negative when sold
SignedSize(position) ==
    IF position.direction = "buy" THEN Val(position.size) ELSE -Val(position.size)

OrderSigned(order) ==
    IF order.method = "private/buy" THEN order.params.amount ELSE -order.params.amount

Holds(positions, name) == \E i \in 1..Len(positions) : positions[i].instrument_name = name

\* the exchange lists the positions by strike
Precedes(name, other) == name[3].value < other[3].value

\* the account after the fill of one order at the price given
FillOrder(positions, order, price) ==
    LET name == order.params.instrument_name IN
    IF ~Holds(positions, name)
    THEN LET before == SelectSeq(positions, LAMBDA p : Precedes(p.instrument_name, name))
             after  == SelectSeq(positions, LAMBDA p : ~Precedes(p.instrument_name, name))
         IN before
            \o <<Position(name, Some(price), Some(price), Some(order.params.amount),
                          IF order.method = "private/buy" THEN "buy" ELSE "sell")>>
            \o after
    ELSE LET i      == CHOOSE k \in 1..Len(positions) : positions[k].instrument_name = name
             signed == SignedSize(positions[i]) + OrderSigned(order)
         IN IF signed = 0
            THEN SubSeq(positions, 1, i - 1) \o SubSeq(positions, i + 1, Len(positions))
            ELSE [positions EXCEPT ![i] = [@ EXCEPT !.size = Some(Abs(signed)),
                                                    !.direction = IF signed > 0 THEN "buy"
                                                                  ELSE "sell"]]

RECURSIVE FillOrders(_, _, _)
FillOrders(positions, orders, prices) ==
    IF orders = <<>> THEN positions
    ELSE FillOrders(FillOrder(positions, Head(orders), Head(prices)),
                    Tail(orders), Tail(prices))

WithinLots(positions) ==
    \A i \in 1..Len(positions) : Val(positions[i].size) <= MaxLots * BTC_CONTRACT_SIZE

InitCycles ==
    /\ account \in CycleAccounts
    /\ op = [name |-> "none"]
    /\ env = [name |-> "none"]
    /\ ret = None
    /\ log = <<>>
    /\ raised = ""
    /\ system = TradingSystem
    /\ paper = PaperTradingTest

\* execute_volatility_arbitrage_strategy on the account as it stands, and the
\* fills of its orders
StrategyCall ==
    /\ Idle
    /\ \E scan \in CycleScanEnvs :
       \E build \in CycleBuildEnvs :
        LET g == [positions |-> OkResp(account), scan |-> scan, build |-> build] IN
        \E r \in {execute_volatility_arbitrage_strategy("BTC", g)} :
        \E filled \in {FillOrders(account, FilledOrders(r.calls, build),
                                  [k \in 1..2 |-> 120])} :
           /\ WithinLots(filled)
           /\ op' = [name |-> "execute", currency |-> "BTC"]
           /\ env' = g
           /\ ret' = r.ret
           /\ log' = r.calls
           /\ raised' = r.raised
           /\ account' = filled
           /\ UNCHANGED <<system, paper>>

\* manage_positions on the account after the mark of one position, or of
\* none, has doubled, and the fills of its closing orders
ReviewCall ==
    /\ Idle
    /\ \E moved \in 0..Len(account) :
        LET marked == [i \in 1..Len(account) |->
                          IF i = moved THEN [account[i] EXCEPT !.mark_price = Some(240)]
                          ELSE account[i]]
            g == [positions |-> OkResp(marked),
                  orders |-> [i \in 1..Len(account) |-> OrderAccepted(7)]]
        IN
        \E r \in {manage_positions("BTC", g)} :
           /\ op' = [name |-> "manage_positions", currency |-> "BTC"]
           /\ env' = g
           /\ ret' = r.ret
           /\ log' = r.calls
           /\ raised' = ""
           /\ account' = FillOrders(account, Orders(r.calls),
                                    [k \in 1..Len(Orders(r.calls)) |-> 240])
           /\ UNCHANGED <<system, paper>>

NextCycles == StrategyCall \/ ReviewCall \/ Return

SpecCycles == InitCycles /\ [][NextCycles]_vars

(***************************************************************************)
(* PaperTradingTest: the paper-trading book                                *)
(*                                                                         *)
(* A paper position is [id, instrument, amount, entry_price, direction,    *)
(* value]; beside these fields the record keeps what the open took from    *)
(* the capital (debit: the capital before the open minus the capital after *)
(* it).                                                                    *)
(***************************************************************************)
\* the most paper positions open at a time, and the most trades of a test
MaxPaper == 2
MaxTrades == 4

\* the profit of a close: the price moved for a buy, against a sell
PaperPnl(position, price) ==
    IF position.direction = "buy"
    THEN (price - position.entry_price) * position.amount
    ELSE (position.entry_price - price) * position.amount

\* the index of the first position the close is matched with, 0 for none
RECURSIVE FirstMatch(_, _, _, _)
FirstMatch(positions, instrument, direction, i) ==
    IF i > Len(positions) THEN 0
    ELSE IF positions[i].instrument = instrument /\ positions[i].direction # direction
    THEN i
    ELSE FirstMatch(positions, instrument, direction, i + 1)

\* test: the PaperTradingTest; returns the trade and the test after it
simulate_trade(test, trade_type, instrument, amount, price, direction) ==
    LET value       == amount * price
        position_id == test.trades + 1
        trade       == [id |-> position_id, type |-> trade_type, instrument |-> instrument,
                        amount |-> amount, price |-> price, direction |-> direction,
                        value |-> value]
        recorded    == [test EXCEPT !.trades = @ + 1]
    IN
    IF trade_type = "open"
    THEN LET capital == IF direction = "buy" THEN test.current_capital - value
                        ELSE test.current_capital + value
         IN [ret  |-> trade,
             test |-> [recorded EXCEPT
                          !.paper_positions =
                              Append(@, [id |-> position_id, instrument |-> instrument,
                                         amount |-> amount, entry_price |-> price,
                                         direction |-> direction, value |-> value,
                                         debit |-> test.current_capital - capital]),
                          !.current_capital = capital]]
    ELSE IF trade_type = "close"
    THEN LET i == FirstMatch(test.paper_positions, instrument, direction, 1) IN
         IF i = 0 THEN [ret |-> trade, test |-> recorded]
         ELSE LET position == test.paper_positions[i]
                  pnl      == PaperPnl(position, price)
              IN [ret  |-> [id |-> position_id, type |-> trade_type,
                            instrument |-> instrument, amount |-> amount,
                            price |-> price, direction |-> direction, value |-> value,
                            pnl |-> pnl, pnl_pct |-> <<pnl, position.value>>,
                            position_id |-> position.id],
                  test |-> [recorded EXCEPT
                               !.paper_positions =
                                   SubSeq(@, 1, i - 1) \o SubSeq(@, i + 1, Len(@)),
                               !.current_capital = @ + position.value + pnl]]
    ELSE [ret |-> trade, test |-> recorded]

\* the price a paper position is closed at: the best bid for a buy, the
\* best ask for a sell, None when the book has none
CurrentPrice(position, order_book) ==
    LET side == IF position.direction = "buy" THEN order_book.bids ELSE order_book.asks
    IN IF side # <<>> THEN Some(side[1]) ELSE None

\* pnl_pct of a paper position as the ratio <<numerator, entry_price>>
PaperPnlPct(position, current_price) ==
    IF position.direction = "buy"
    THEN <<current_price - position.entry_price, position.entry_price>>
    ELSE <<position.entry_price - current_price, position.entry_price>>

\* the exit rule of a paper position, "" for none
PaperExitAction(position, current_price) ==
    LET pnl_pct == PaperPnlPct(position, current_price)
        byPnl   == IF PnlAtLeast(pnl_pct, PROFIT_TARGET_PCT) THEN "take_profit"
                   ELSE IF PnlAtMost(pnl_pct, -STOP_LOSS_PCT) THEN "stop_loss"
                   ELSE ""
    IN IF NearExpiry(position.instrument) THEN "close_to_expiry" ELSE byPnl

\* the loop over the copy of the paper positions, from the i-th on;
\* books[i] is the gateway's order book for the i-th position of the copy
RECURSIVE ManagePaper(_, _, _, _)
ManagePaper(test, copy, books, i) ==
    IF i > Len(copy) THEN [test |-> test, actions |-> <<>>, calls |-> <<>>]
    ELSE
    LET position   == copy[i]
        order_book == get_order_book(position.instrument, BOOK_DEPTH, books[i])
        skipped    == ManagePaper(test, copy, books, i + 1)
        skip       == [test |-> skipped.test, actions |-> skipped.actions,
                       calls |-> order_book.calls \o skipped.calls]
    IN
    IF order_book.ret = None THEN skip
    ELSE
    LET current_price == CurrentPrice(position, Val(order_book.ret)) IN
    IF ~Truthy(current_price) THEN skip
    ELSE
    LET action == PaperExitAction(position, Val(current_price)) IN
    IF action = "" THEN skip
    ELSE
    LET close_direction == IF position.direction = "sell" THEN "buy" ELSE "sell"
        close_trade == simulate_trade(test, "close", position.instrument,
                                      position.amount, Val(current_price),
                                      close_direction)
        rest        == ManagePaper(close_trade.test, copy, books, i + 1)
    IN [test    |-> rest.test,
        actions |-> <<[instrument |-> position.instrument, action |-> action,
                       pnl_pct |-> PaperPnlPct(position, Val(current_price)),
                       trade |-> close_trade.ret]>> \o rest.actions,
        calls   |-> order_book.calls \o rest.calls]

manage_paper_positions(test, books) ==
    LET managed == ManagePaper(test, test.paper_positions, books, 1)
    IN [ret |-> managed.actions, test |-> managed.test, calls |-> managed.calls]

\* an option 10 days from its expiry and one that is 2 days from it
PaperInstruments ==
    {InstrumentName("BTC", ExpiryText(TRUE, days), StrikeText(100, FALSE), "C") :
        days \in {2, 10}}

\* 0.01 BTC and 0.1 ETH
PaperAmounts == {1, 10}

PaperPrices == {100, 200}

PaperBooks == {ErrorResp, Book(<<>>, <<>>)} \cup {Book(<<p>>, <<p>>) : p \in PaperPrices}

InitPaper ==
    /\ account = <<>>
    /\ op = [name |-> "none"]
    /\ env = [name |-> "none"]
    /\ ret = None
    /\ log = <<>>
    /\ raised = ""
    /\ system = TradingSystem
    /\ paper = PaperTradingTest

\* simulate_trade("open", ...), as simulate_volatility_arbitrage calls it
SimulateTrade ==
    /\ Idle
    /\ Len(paper.paper_positions) < MaxPaper
    /\ paper.trades < MaxTrades
    /\ \E instrument \in PaperInstruments :
       \E amount \in PaperAmounts :
       \E price \in PaperPrices :
       \E direction \in {"buy", "sell"} :
        \E r \in {simulate_trade(paper, "open", instrument, amount, price, direction)} :
           /\ op' = [name |-> "simulate_trade", before |-> paper]
           /\ env' = [name |-> "none"]
           /\ ret' = r.ret
           /\ log' = <<>>
           /\ raised' = ""
           /\ paper' = r.test
           /\ UNCHANGED <<account, system>>

ManagePaperPositions ==
    /\ Idle
    /\ paper.trades + Len(paper.paper_positions) <= MaxTrades
    /\ \E books \in [1..Len(paper.paper_positions) -> PaperBooks] :
        \E r \in {manage_paper_positions(paper, books)} :
           /\ op' = [name |-> "manage_paper_positions", before |-> paper]
           /\ env' = books
           /\ ret' = r.ret
           /\ log' = r.calls
           /\ raised' = ""
           /\ paper' = r.test
           /\ UNCHANGED <<account, system>>

NextPaper == SimulateTrade \/ ManagePaperPositions \/ Return

SpecPaper == InitPaper /\ [][NextPaper]_vars

(***************************************************************************)
(* C1: a spread build never returns a spread whose |net_cost| exceeds      *)
(* MAX_POSITION_SIZE: whenever |(best ask of the buy leg - best bid of the *)
(* sell leg) * amount| is above the budget, the build is rejected and no   *)
(* order is placed on either leg.                                          *)
(***************************************************************************)
C1_BudgetCap ==
    Building =>
        /\ ret # None => Abs(Val(ret).net_cost) <= MAX_POSITION_SIZE
        /\ (/\ op.spread_type \in SPREAD_TYPES
            /\ Quoted(env)
            /\ Abs((BestAsk(env) - BestBid(env)) * op.amount) > MAX_POSITION_SIZE)
           => (ret = None /\ Orders(log) = <<>>)

\* a build of a large credit (the bid far above the ask) is turned down
C1_Witness ==
    /\ Building
    /\ op.spread_type \in SPREAD_TYPES
    /\ Quoted(env)
    /\ (BestAsk(env) - BestBid(env)) * op.amount < -MAX_POSITION_SIZE
    /\ ret = None
    /\ Orders(log) = <<>>

(***************************************************************************)
(* C2: when the buy leg is placed and the sell leg then fails, the result  *)
(* of the strategy call is a partial-execution outcome: it is no success,  *)
(* and it differs from the result of every rejection of the same           *)
(* opportunity in which nothing was committed.                             *)
(***************************************************************************)
C2_PartialExecutionReported ==
    (Executing /\ BuyOnly(log, env.build)) =>
        /\ ret.status # "success"
        /\ \A b \in ExecBuildEnvs :
              LET other == execute_volatility_arbitrage_strategy(
                               op.currency, [env EXCEPT !.build = b])
              IN NothingCommitted(other.calls, b) => other.ret # ret

(***************************************************************************)
(* C3: when the cancel of the buy leg fails, the result of the build tells *)
(* so: it differs from the result of the same build whose cancel succeeds. *)
(***************************************************************************)
C3_CancelFailureReported ==
    (Building /\ BuyOnly(log, env) /\ Cancels(log) # <<>> /\ env.cancel.error) =>
        LET cancelled == create_vertical_spread(
                             op.currency, op.spread_type, op.strike1, op.strike2,
                             op.expiry, op.amount,
                             [env EXCEPT !.cancel = OkResp([order_id |-> 1])])
        IN cancelled.ret # ret

(***************************************************************************)
(* C4: the spread built for an opportunity has the kind and the leg        *)
(* strikes of the table: sell/call = bear_call buying the higher strike    *)
(* and selling the lower; sell/put = bear_put buying the lower and selling *)
(* the higher; buy/call = bull_call buying the lower and selling the       *)
(* higher; buy/put = bull_put buying the higher and selling the lower;     *)
(* the second strike is strike*(1+5%) for calls, strike*(1-5%) for puts.   *)
(***************************************************************************)
TableSpread(direction, kind, strike) ==
    LET second == IF kind = "C"
                  THEN strike + (strike * STRIKE_SPREAD_PCT) \div 100
                  ELSE strike - (strike * STRIKE_SPREAD_PCT) \div 100
        lower  == IF second < strike THEN second ELSE strike
        higher == IF second < strike THEN strike ELSE second
    IN CASE direction = "sell" /\ kind = "C" ->
              [spread_type |-> "bear_call", buy |-> higher, sell |-> lower]
         [] direction = "sell" /\ kind = "P" ->
              [spread_type |-> "bear_put", buy |-> lower, sell |-> higher]
         [] direction = "buy" /\ kind = "C" ->
              [spread_type |-> "bull_call", buy |-> lower, sell |-> higher]
         [] direction = "buy" /\ kind = "P" ->
              [spread_type |-> "bull_put", buy |-> higher, sell |-> lower]

C4_SpreadTable ==
    (Executing /\ ret.status = "success") =>
        LET kind  == ret.opportunity.instrument[4]
            table == TableSpread(ret.opportunity.type, kind, ret.opportunity.strike)
        IN /\ ret.spread.spread_type = table.spread_type
           /\ ret.spread.buy_option[3].value = table.buy
           /\ ret.spread.sell_option[3].value = table.sell
           /\ ret.spread.buy_option[4] = kind
           /\ ret.spread.sell_option[4] = kind

(***************************************************************************)
(* C5: whenever the account holds MAX_POSITIONS or more open option        *)
(* positions, the strategy call places no order and runs no scan.          *)
(***************************************************************************)
HoldsOption(p) == p.instrument_name[Len(p.instrument_name)] \in {"C", "P"}

C5_PositionCap ==
    (Executing /\ Len(SelectSeq(account, HoldsOption)) >= MAX_POSITIONS) =>
        /\ Orders(log) = <<>>
        /\ SelectSeq(log, IsScanRequest) = <<>>

(***************************************************************************)
(* The exit rules as the specification states them                         *)
(***************************************************************************)
Reviewing == op.name = "manage_positions"

\* the review was given the positions of the account
Reviewed == Reviewing /\ ~env.positions.error

\* an open option position whose record has every field
WellFormed(p) ==
    /\ p.instrument_name # <<>> /\ HoldsOption(p)
    /\ p.average_price # None /\ Val(p.average_price) > 0
    /\ p.mark_price # None /\ Val(p.mark_price) >= 0
    /\ p.size # None /\ Val(p.size) > 0
    /\ p.direction \in {"buy", "sell"}

\* days_to_expiry of a position whose expiry parses
HasDays(p) == p.instrument_name[2].ok
Days(p) == p.instrument_name[2].days

\* (mark - entry) / entry for a long, (entry - mark) / entry for a short,
\* against a percentage
Gain(p) ==
    IF p.direction = "buy"
    THEN Val(p.mark_price) - Val(p.average_price)
    ELSE Val(p.average_price) - Val(p.mark_price)
GainAtLeast(p, pct) == Gain(p) * 100 >= pct * Val(p.average_price)
GainAtMost(p, pct) == Gain(p) * 100 <= pct * Val(p.average_price)

StatedAction(p) ==
    IF HasDays(p) /\ Days(p) <= 2 THEN "close_to_expiry"
    ELSE IF GainAtLeast(p, PROFIT_TARGET_PCT) THEN "take_profit"
    ELSE IF GainAtMost(p, -STOP_LOSS_PCT) THEN "stop_loss"
    ELSE ""

Labelled(calls, action) ==
    SelectSeq(Orders(calls), LAMBDA req : req.params.label = "close_" \o action)

(***************************************************************************)
(* C6: every well-formed open option position whose days_to_expiry is <= 2 *)
(* is closed with reason close_to_expiry, whatever its entry price, mark   *)
(* price and P&L sign: the review places as many orders labelled           *)
(* close_close_to_expiry as the account holds such positions.              *)
(***************************************************************************)
ExpiresSoon(p) == WellFormed(p) /\ HasDays(p) /\ Days(p) <= 2

C6_ExpiryAlwaysCloses ==
    Reviewed =>
        Len(Labelled(log, "close_to_expiry")) = Len(SelectSeq(account, ExpiresSoon))

(***************************************************************************)
(* C7: for a position with days_to_expiry > 2 the exit decision is exactly *)
(* take_profit when pnl_pct >= PROFIT_TARGET_PCT, stop_loss when pnl_pct   *)
(* <= -STOP_LOSS_PCT and no order otherwise, both boundaries included.     *)
(***************************************************************************)
ExpiresLater(p) == WellFormed(p) /\ HasDays(p) /\ Days(p) > 2
TakesProfit(p) == ExpiresLater(p) /\ StatedAction(p) = "take_profit"
StopsLoss(p) == ExpiresLater(p) /\ StatedAction(p) = "stop_loss"

C7_PnlRules ==
    (Reviewed /\ \A i \in 1..Len(account) : ExpiresLater(account[i])) =>
        /\ Len(Labelled(log, "take_profit")) = Len(SelectSeq(account, TakesProfit))
        /\ Len(Labelled(log, "stop_loss")) = Len(SelectSeq(account, StopsLoss))
        /\ Len(Orders(log)) = Len(SelectSeq(account, TakesProfit))
                              + Len(SelectSeq(account, StopsLoss))

(***************************************************************************)
(* C8: for every position for which an exit action is selected the review  *)
(* places exactly one market order, on the position's instrument, on the   *)
(* side opposite to its direction, for its full size, labelled             *)
(* close_<action>; no order is placed for a position with no action.       *)
(***************************************************************************)
Selected(p) == IsOptionPosition(p) /\ AllPresent(p) /\ ExitAction(p) # ""

ClosingOrder(p) ==
    Request(IF p.direction = "buy" THEN "private/sell" ELSE "private/buy",
            [instrument_name |-> p.instrument_name,
             amount |-> Val(p.size),
             type   |-> "market",
             price  |-> None,
             label  |-> "close_" \o ExitAction(p)])

C8_ClosingOrders ==
    Reviewed =>
        LET selected == SelectSeq(account, Selected)
        IN Orders(log) = [k \in 1..Len(selected) |-> ClosingOrder(selected[k])]

\* a long and a short position are both closed, a third one is left open
C8_Witness ==
    /\ Reviewed
    /\ Len(account) = MaxReview
    /\ \E i, j \in 1..Len(account) :
          /\ Selected(account[i]) /\ account[i].direction = "buy"
          /\ ~Selected(account[j]) /\ WellFormed(account[j])
    /\ Len(Orders(log)) = 1
    /\ Orders(log)[1].method = "private/sell"

(***************************************************************************)
(* The scan as the specification states it                                 *)
(***************************************************************************)
Scanning == op.name = "find_opportunities"

\* the scan had a blended volatility and a listing to go through
Scanned ==
    /\ Scanning
    /\ calculate_weighted_historical_volatility(op.currency, env.history).ret # None
    /\ ~env.instruments.error

Blended == Val(calculate_weighted_historical_volatility(op.currency, env.history).ret)
Listing == Val(env.instruments.result)

\* the k-th listed option is inside the expiry window and has a quote
Candidate(k) ==
    /\ 7 <= Listing[k].expiration_days /\ Listing[k].expiration_days <= 21
    /\ ~env.quotes[k].error
    /\ Val(env.quotes[k].result).mark_iv # None

Implied(k) == Val(Val(env.quotes[k].result).mark_iv)

\* implied / blended against 1.3 and 0.7
Overpriced(iv, hv) == iv * 10 > 13 * hv
Underpriced(iv, hv) == iv * 10 < 7 * hv

CountOf(type) == Len(SelectSeq(ret, LAMBDA o : o.type = type))

(***************************************************************************)
(* C9: the ratio classification is a total, mutually exclusive partition:  *)
(* a candidate is a sell exactly when its ratio is above the high          *)
(* threshold, a buy exactly when it is below the low threshold and is      *)
(* discarded otherwise; a ratio equal to a threshold is discarded.         *)
(***************************************************************************)
C9_RatioPartition ==
    Scanned =>
        /\ \A i \in 1..Len(ret) :
              /\ ret[i].type \in {"sell", "buy"}
              /\ ret[i].type = "sell" <=> Overpriced(ret[i].iv, ret[i].hv)
              /\ ret[i].type = "buy" <=> Underpriced(ret[i].iv, ret[i].hv)
              /\ ~(Overpriced(ret[i].iv, ret[i].hv) /\ Underpriced(ret[i].iv, ret[i].hv))
        /\ CountOf("sell") = Cardinality({k \in 1..Len(Listing) :
                                 Candidate(k) /\ Overpriced(Implied(k), Blended)})
        /\ CountOf("buy") = Cardinality({k \in 1..Len(Listing) :
                                 Candidate(k) /\ Underpriced(Implied(k), Blended)})

\* candidates at both thresholds are discarded beside a sell
C9_Witness ==
    /\ Scanned
    /\ Blended = 60
    /\ \E i, j, k \in 1..Len(Listing) :
          /\ Candidate(i) /\ Implied(i) = 78
          /\ Candidate(j) /\ Implied(j) = 42
          /\ Candidate(k) /\ Implied(k) = 85
    /\ Len(ret) = 1
    /\ ret[1].type = "sell"

(***************************************************************************)
(* C10: in the list a scan returns every sell entry precedes every buy     *)
(* entry, the ratios of the sell entries are non-increasing and the ratios *)
(* of the buy entries are non-decreasing.                                  *)
(***************************************************************************)
RatioAtMost(o1, o2) == o1.iv * o2.hv <= o2.iv * o1.hv

C10_ScanOrdering ==
    Scanning =>
        \A i, j \in 1..Len(ret) :
            i < j =>
                /\ ~(ret[i].type = "buy" /\ ret[j].type = "sell")
                /\ (ret[i].type = "sell" /\ ret[j].type = "sell") => RatioAtMost(ret[j], ret[i])
                /\ (ret[i].type = "buy" /\ ret[j].type = "buy") => RatioAtMost(ret[i], ret[j])

\* a buy listed before two sells that are listed in increasing ratio
C10_Witness ==
    /\ Scanned
    /\ Len(Listing) = 3
    /\ Candidate(1) /\ Implied(1) = 30
    /\ Candidate(2) /\ Implied(2) = 85
    /\ Candidate(3) /\ Implied(3) = 90
    /\ Blended = 60
    /\ Len(ret) = 3
    /\ ret[1].iv = 90 /\ ret[2].iv = 85 /\ ret[3].iv = 30

(***************************************************************************)
(* C11: every opportunity a scan returns has MIN_DAYS_TO_EXPIRY <=          *)
(* days_to_expiry <= MAX_DAYS_TO_EXPIRY, both bounds included, and the      *)
(* implied-volatility quote is requested for the listed options inside     *)
(* that window and for no other, once each, in the order of the listing.   *)
(***************************************************************************)
IsQuoteRequest(req) == req.method = "public/get_order_book"

Eligible(option) ==
    MIN_DAYS_TO_EXPIRY <= option.expiration_days
    /\ option.expiration_days <= MAX_DAYS_TO_EXPIRY

C11_ExpiryWindow ==
    Scanned =>
        /\ \A i \in 1..Len(ret) :
              /\ ret[i].days_to_expiry >= MIN_DAYS_TO_EXPIRY
              /\ ret[i].days_to_expiry <= MAX_DAYS_TO_EXPIRY
        /\ LET eligible == SelectSeq(Listing, Eligible)
           IN SelectSeq(log, IsQuoteRequest) =
                 [k \in 1..Len(eligible) |->
                     Request("public/get_order_book",
                             [instrument_name |-> eligible[k].instrument_name,
                              depth |-> 1])]

\* of three overpriced options 6, 21 and 22 days from expiry, the one at 21
\* days is quoted and returned; beside it, one at 7 days is too
C11_Witness ==
    /\ Scanned
    /\ Blended = 60
    /\ {Listing[k].expiration_days : k \in 1..Len(Listing)} \in {{6, 21, 22}, {6, 7, 21}}
    /\ Len(SelectSeq(log, IsQuoteRequest)) = Len(ret)
    /\ \E i \in 1..Len(ret) : ret[i].days_to_expiry = 21

(***************************************************************************)
(* C12: no exception leaves a scan, a strategy call (scan and build) or a  *)
(* review: a gateway error, a record with a missing field and a name with  *)
(* fewer than four parts all end in a returned value.                      *)
(***************************************************************************)
C12_NoExceptionEscapes ==
    op.name \in {"find_opportunities", "execute", "manage_positions"} => raised = ""

(***************************************************************************)
(* C13: a spread build is rejected with no order placed whenever the order *)
(* book of either leg is unavailable, the book of the buy leg has no asks  *)
(* or the book of the sell leg has no bids; the bids of the buy leg and    *)
(* the asks of the sell leg play no part: a build that finds the sides it  *)
(* needs, within the budget, with both orders accepted, succeeds, and the  *)
(* build ends as it does with the other sides filled in.                   *)
(***************************************************************************)
Unquoted(g) ==
    \/ g.buy_book.error
    \/ g.sell_book.error
    \/ Val(g.buy_book.result).asks = <<>>
    \/ Val(g.sell_book.result).bids = <<>>

\* the responses of a build with both sides of both books present
BothSides(g) ==
    [g EXCEPT !.buy_book  = Book(<<BestAsk(g)>>, <<BestAsk(g)>>),
              !.sell_book = Book(<<BestBid(g)>>, <<BestBid(g)>>)]

C13_LiquidityRejection ==
    (Building /\ op.spread_type \in SPREAD_TYPES) =>
        /\ Unquoted(env) => (ret = None /\ Orders(log) = <<>>)
        /\ (/\ ~Unquoted(env)
            /\ Abs((BestAsk(env) - BestBid(env)) * op.amount) <= MAX_POSITION_SIZE
            /\ ~env.buy_order.error
            /\ ~env.sell_order.error) => ret # None
        /\ ~Unquoted(env) =>
              LET full == create_vertical_spread(op.currency, op.spread_type, op.strike1,
                                                 op.strike2, op.expiry, op.amount,
                                                 BothSides(env))
              IN ret = full.ret /\ Orders(log) = Orders(full.calls)

\* a spread is built on a buy leg without bids and a sell leg without asks
C13_Witness ==
    /\ Building
    /\ ~env.buy_book.error /\ ~env.sell_book.error
    /\ Val(env.buy_book.result).bids = <<>> /\ Val(env.buy_book.result).asks # <<>>
    /\ Val(env.sell_book.result).asks = <<>> /\ Val(env.sell_book.result).bids # <<>>
    /\ ret # None
    /\ Len(Orders(log)) = 2

(***************************************************************************)
(* C14: the instrument name of the opportunity round-trips through the     *)
(* spread builder: the build made for an opportunity asks for the order    *)
(* book of the opportunity's own instrument, under the very name the       *)
(* listing gave.                                                           *)
(***************************************************************************)
IsBookRequest(req) ==
    req.method = "public/get_order_book" /\ req.params.depth = BOOK_DEPTH

\* the strategy call went on to build a spread
Built == Executing /\ raised = "" /\ ret.status \in {"success", "failed"}

C14_NameRoundTrip ==
    Built =>
        \E i \in 1..Len(log) :
            /\ IsBookRequest(log[i])
            /\ log[i].params.instrument_name = ret.opportunity.instrument

(***************************************************************************)
(* C15: a position whose expiry does not parse as DDMonYY skips the expiry *)
(* rule only: the review places for it the order it places for the same    *)
(* position expiring far ahead (take_profit, stop_loss or none), and goes  *)
(* on with the positions after it.                                         *)
(***************************************************************************)
Unparsable(p) ==
    /\ Len(p.instrument_name) = 4
    /\ HoldsOption(p)
    /\ ~p.instrument_name[2].ok

\* the same position, expiring in three days
Redated(p) ==
    IF Unparsable(p)
    THEN [p EXCEPT !.instrument_name = InstrumentName(p.instrument_name[1],
                                                      ExpiryText(TRUE, 3),
                                                      p.instrument_name[3],
                                                      p.instrument_name[4])]
    ELSE p

\* an order but for the name of its instrument
SideSizeLabel(req) ==
    [method |-> req.method, amount |-> req.params.amount, type |-> req.params.type,
     price |-> req.params.price, label |-> req.params.label]

C15_UnparsableExpiry ==
    Reviewed =>
        LET redated == [k \in 1..Len(account) |-> Redated(account[k])]
            other   == manage_positions(op.currency,
                                        [env EXCEPT !.positions = OkResp(redated)])
            placed  == Orders(log)
            wanted  == Orders(other.calls)
        IN /\ Len(placed) = Len(wanted)
           /\ \A k \in 1..Len(placed) : SideSizeLabel(placed[k]) = SideSizeLabel(wanted[k])
           /\ \A k \in 1..Len(placed) :
                 ~placed[k].params.instrument_name[2].ok
                    => placed[k].params.label \in {"close_take_profit", "close_stop_loss"}

\* a position whose expiry does not parse takes its profit, and the position
\* after it is closed as well
C15_Witness ==
    /\ Reviewed
    /\ Len(account) = MaxReview
    /\ Unparsable(account[1])
    /\ GainAtLeast(account[1], PROFIT_TARGET_PCT)
    /\ Len(Orders(log)) = MaxReview
    /\ Orders(log)[1].params.label = "close_take_profit"
    /\ Orders(log)[1].params.instrument_name = account[1].instrument_name

(***************************************************************************)
(* C16: a position record that lacks its instrument name, entry price,     *)
(* mark price, size or direction is skipped, no order being placed for it, *)
(* and the other positions of the review are evaluated as they are in the  *)
(* review of the account without that record.                              *)
(***************************************************************************)
Incomplete(p) ==
    \/ p.instrument_name = <<>>
    \/ p.average_price = None
    \/ p.mark_price = None
    \/ p.size = None
    \/ p.direction = ""

Complete(p) == ~Incomplete(p)

C16_IncompleteSkipped ==
    Reviewed =>
        LET others == SelectSeq(account, Complete)
            alone  == manage_positions(
                          op.currency,
                          [positions |-> OkResp(others),
                           orders    |-> [k \in 1..Len(others) |-> OrderAccepted(7)]])
        IN Orders(log) = Orders(alone.calls)

\* a record without a mark price, due to expire, is passed over and the
\* position after it is closed
C16_Witness ==
    /\ Reviewed
    /\ Len(account) = MaxReview
    /\ account[1].mark_price = None
    /\ HoldsOption(account[1])
    /\ Complete(account[MaxReview])
    /\ Len(Orders(log)) = 1
    /\ Orders(log)[1].params.instrument_name = account[MaxReview].instrument_name

(***************************************************************************)
(* C17: calculate_weighted_historical_volatility returns None only when    *)
(* the price history cannot be fetched (the gateway answers an error or    *)
(* the response has no close series); for every fetched series, however    *)
(* short, the empty one included, it returns a number.                     *)
(***************************************************************************)
Blending == op.name = "blend"

Unfetched(resp) == resp.error \/ ~Val(resp.result).has_close

C17_BlendUnavailable ==
    Blending => (ret = None <=> Unfetched(env))

\* the empty series blends the three fallback volatilities, 0.73
C17_Witness ==
    /\ Blending
    /\ ~Unfetched(env)
    /\ Val(env.result).close.len = 0
    /\ ret = Some(73)

(***************************************************************************)
(* C18: when the blended historical volatility is unavailable the scan     *)
(* returns the empty list without listing the instruments and without      *)
(* fetching any quote, and the strategy call then places no order: after   *)
(* the positions, the price history is the only request it makes.          *)
(***************************************************************************)
IsHistoryRequest(req) == req.method = "public/get_tradingview_chart_data"

\* the strategy call ran the scan, and the scan had no blend
ScannedBlind ==
    /\ Executing
    /\ SelectSeq(log, IsHistoryRequest) # <<>>
    /\ calculate_weighted_historical_volatility(op.currency, env.scan.history).ret = None

C18_NoBlendNoScan ==
    ScannedBlind =>
        /\ raised = ""
        /\ ret = [status |-> "no_opportunities"]
        /\ [k \in 1..Len(log) |-> log[k].method] =
              <<"private/get_positions", "public/get_tradingview_chart_data">>
        /\ Orders(log) = <<>>

\* an overpriced option is listed and quoted and both books are quoted, but
\* the price history fails
C18_Witness ==
    /\ ScannedBlind
    /\ ~env.scan.instruments.error
    /\ Len(Val(env.scan.instruments.result)) = 1
    /\ env.scan.quotes[1] = Quote(Some(85))
    /\ Quoted(env.build)
    /\ ~env.build.buy_order.error
    /\ ret.status = "no_opportunities"
    /\ Len(log) = 2

(***************************************************************************)
(* C20: in a spread build the buy leg is placed before the sell leg, and   *)
(* the sell leg only after the buy leg was accepted: when the buy order    *)
(* fails the build stops, with no sell order and no cancel request.        *)
(***************************************************************************)
C20_BuyBeforeSell ==
    Building =>
        LET orders == Orders(log) IN
        /\ Len(orders) <= 2
        /\ Len(orders) >= 1 =>
              /\ orders[1].method = "private/buy"
              /\ orders[1].params.label = "spread_" \o op.spread_type \o "_buy"
        /\ Len(orders) = 2 =>
              /\ orders[2].method = "private/sell"
              /\ orders[2].params.label = "spread_" \o op.spread_type \o "_sell"
              /\ ~env.buy_order.error
        /\ (Len(orders) >= 1 /\ env.buy_order.error) =>
              /\ Len(orders) = 1
              /\ Cancels(log) = <<>>
              /\ ret = None

\* the buy order is refused where the sell order would have been accepted
C20_Witness ==
    /\ Building
    /\ Len(Orders(log)) = 1
    /\ env.buy_order.error
    /\ ~env.sell_order.error
    /\ Cancels(log) = <<>>
    /\ ret = None

(***************************************************************************)
(* C19: a stop request is observed only between cycles.  When stop() is    *)
(* called while a cycle is in flight, the cycle is not abandoned: it goes  *)
(* on to its end, and a cycle that ends without an early return or an      *)
(* exception has made its position review, when one was due, and the       *)
(* strategy call of both currencies; no new cycle begins after the         *)
(* request.                                                                *)
(***************************************************************************)
StoppedInFlight == system.stopped_in # 0

WholeCycle ==
    {<<"account", "positions", "execute_BTC", "execute_ETH">>,
     <<"account", "positions", "review_BTC", "review_ETH", "execute_BTC", "execute_ETH">>}

Reviewless(steps) == Len(steps) = 4

C19_CycleKept ==
    /\ system.outcome = "in_flight" => InCycle(system)
    /\ StoppedInFlight =>
          /\ system.cycle = system.stopped_in
          /\ ~system.running
          /\ system.pc \in CyclePhases \cup {"sleep", "loop", "finally", "done"}
          /\ system.outcome = "completed" =>
                /\ system.steps \in WholeCycle
                /\ (system.pc = "sleep" /\ Reviewless(system.steps)) =>
                      system.now - system.last_position_check < POSITION_CHECK_INTERVAL

C19_StopBetweenCycles ==
    /\ []C19_CycleKept
    /\ (InCycle(system) /\ StoppedInFlight) ~> ~InCycle(system)

\* stop() is called during the first step of a cycle in which a review is
\* due; the cycle makes its six calls and the run ends
C19_Witness ==
    /\ StoppedInFlight
    /\ system.pc = "done"
    /\ system.outcome = "completed"
    /\ Len(system.steps) = 6
    /\ system.cycle > 1

(***************************************************************************)
(* C21: when the buy leg is accepted and the sell leg is refused, the      *)
(* build issues exactly one cancel request, for the order id the buy order *)
(* returned, as its last request before it returns; in every other outcome *)
(* of a build no cancel request is issued.                                 *)
(***************************************************************************)
C21_SingleCancel ==
    Building =>
        IF BuyOnly(log, env)
        THEN /\ Cancels(log) =
                   <<Request("private/cancel",
                             [order_id |-> Val(env.buy_order.result).order_id])>>
             /\ IsCancel(log[Len(log)])
             /\ IsOrder(log[Len(log) - 1])
             /\ ret = None
        ELSE Cancels(log) = <<>>

\* the sell order is refused after the buy order 1 was accepted: the build
\* ends on the cancel of order 1, whether or not the cancel is accepted
C21_Witness ==
    /\ Building
    /\ BuyOnly(log, env)
    /\ env.cancel.error
    /\ Len(log) = 5
    /\ log[5] = Request("private/cancel", [order_id |-> 1])
    /\ ret = None

(***************************************************************************)
(* C22: a build reports success exactly when both leg orders were placed   *)
(* and accepted, and the record it returns then holds the spread kind, the *)
(* instruments of both legs, both order results, the amount and            *)
(* net_cost = (best ask of the buy leg - best bid of the sell leg) *       *)
(* amount; the buy order was placed at that ask and the sell order at that *)
(* bid, both as limit orders of the amount.                                *)
(***************************************************************************)
BothAccepted(calls, g) ==
    /\ Len(Orders(calls)) = 2
    /\ ~g.buy_order.error
    /\ ~g.sell_order.error

C22_SuccessRecord ==
    Building =>
        /\ ret # None <=> BothAccepted(log, env)
        /\ ret # None =>
              LET spread == Val(ret)
                  orders == Orders(log)
              IN /\ DOMAIN spread = {"spread_type", "buy_option", "sell_option",
                                     "buy_order", "sell_order", "net_cost", "amount"}
                 /\ spread.spread_type = op.spread_type
                 /\ spread.buy_option = orders[1].params.instrument_name
                 /\ spread.sell_option = orders[2].params.instrument_name
                 /\ spread.buy_option # spread.sell_option
                 /\ spread.buy_order = Val(env.buy_order.result)
                 /\ spread.sell_order = Val(env.sell_order.result)
                 /\ spread.amount = op.amount
                 /\ spread.net_cost = (BestAsk(env) - BestBid(env)) * op.amount
                 /\ \A i \in 1..2 : /\ orders[i].params.type = "limit"
                                    /\ orders[i].params.amount = op.amount
                 /\ orders[1].params.price = Some(BestAsk(env))
                 /\ orders[2].params.price = Some(BestBid(env))

\* a spread of ten contracts bought at 150 and sold at 120 costs 300
C22_Witness ==
    /\ Building
    /\ ret # None
    /\ op.amount = ETH_CONTRACT_SIZE
    /\ BestAsk(env) = 150
    /\ BestBid(env) = 120
    /\ Val(ret).net_cost = 300
    /\ Len(log) = 4

(***************************************************************************)
(* C23: in the blend the fallback volatility stands in only for the        *)
(* windows that could not be computed (fewer than window + 1 prices): a    *)
(* window that was computed enters the blend with its computed value, a    *)
(* computed 0 included, whether or not another window fell back.           *)
(***************************************************************************)
\* what the window contributes: its volatility when the series has
\* window + 1 points, the fallback of the window otherwise
WindowOrFallback(series, window, computed, fallback) ==
    IF series.len >= window + 1 THEN computed ELSE fallback

C23_FallbackOnlyMissing ==
    (Blending /\ ~Unfetched(env)) =>
        LET series == Val(env.result).close IN
        ret = Some(WindowOrFallback(series, 7, series.short, 8) * 5
                   + WindowOrFallback(series, 14, series.medium, 7) * 3
                   + WindowOrFallback(series, 30, series.long, 6) * 2)

(***************************************************************************)
(* C24: an eligible option whose implied volatility cannot be fetched is   *)
(* left out of the result and the scan goes on with the options after it:  *)
(* the result holds exactly the eligible options that were quoted and      *)
(* whose ratio is a sell or a buy, and it is the result of the scan of the *)
(* listing without the options whose quote failed.                         *)
(***************************************************************************)
\* the gateway answered the quote of the k-th listed option with a value
Answered(k) ==
    /\ ~env.quotes[k].error
    /\ Val(env.quotes[k].result).mark_iv # None

\* the k-th listed option is eligible and its quote failed
QuoteFailed(k) == Eligible(Listing[k]) /\ ~Answered(k)

\* the k-th listed option is one the scan has to return
Returned(k) ==
    /\ Candidate(k)
    /\ Overpriced(Implied(k), Blended) \/ Underpriced(Implied(k), Blended)

\* the listing and the quotes without the options whose quote failed
AnsweredOnly ==
    LET kept == SelectSeq([k \in 1..Len(Listing) |-> k], Answered)
    IN [env EXCEPT !.instruments = OkResp([j \in 1..Len(kept) |-> Listing[kept[j]]]),
                   !.quotes = [j \in 1..Len(kept) |-> env.quotes[kept[j]]]]

C24_QuoteFailureSkipped ==
    Scanned =>
        /\ raised = ""
        /\ Len(ret) = Cardinality({k \in 1..Len(Listing) : Returned(k)})
        /\ \A k \in 1..Len(Listing) :
              Returned(k) => \E i \in 1..Len(ret) :
                                /\ ret[i].instrument = Listing[k].instrument_name
                                /\ ret[i].iv = Implied(k)
        /\ \A i \in 1..Len(ret) :
              \E k \in 1..Len(Listing) :
                 /\ Returned(k)
                 /\ ret[i].instrument = Listing[k].instrument_name
                 /\ ret[i].iv = Implied(k)
        /\ ret = find_volatility_arbitrage_opportunities(op.currency, AnsweredOnly).ret

\* the quote of the first option fails (a gateway error) and that of the
\* second has no mark_iv; the third, an underpriced put, is returned alone
C24_Witness ==
    /\ Scanned
    /\ Blended = 60
    /\ Len(Listing) = 3
    /\ QuoteFailed(1) /\ env.quotes[1].error
    /\ QuoteFailed(2) /\ ~env.quotes[2].error
    /\ Returned(3)
    /\ Len(SelectSeq(log, IsQuoteRequest)) = 3
    /\ Len(ret) = 1
    /\ ret[1].instrument = Listing[3].instrument_name

(***************************************************************************)
(* C25: the leg of the spread on the opportunity's own strike is traded in *)
(* the opportunity's direction: a sell opportunity has its instrument as   *)
(* the sell leg and a buy opportunity as the buy leg, for calls and for    *)
(* puts.  The leg is compared by currency, expiry, strike value and kind.  *)
(***************************************************************************)
SameOption(leg, instrument) ==
    /\ leg[1] = instrument[1]
    /\ leg[2] = instrument[2]
    /\ leg[3].value = instrument[3].value
    /\ leg[4] = instrument[4]

C25_OwnStrikeDirection ==
    (Executing /\ raised = "" /\ ret.status = "success") =>
        IF ret.opportunity.type = "sell"
        THEN SameOption(ret.spread.sell_option, ret.opportunity.instrument)
        ELSE SameOption(ret.spread.buy_option, ret.opportunity.instrument)

(***************************************************************************)
(* C26: over every sequence of strategy calls and reviews in which the     *)
(* exchange fills every order it accepts, the account never holds more     *)
(* than MAX_POSITIONS open option positions of the currency.               *)
(***************************************************************************)
C26_PositionsBounded ==
    Len(SelectSeq(account, HoldsOption)) <= MAX_POSITIONS

(***************************************************************************)
(* C27: one strategy call acts on the first opportunity of its scan only:  *)
(* it places at most two orders and at most one cancel, every request it   *)
(* makes after the scan is for a leg of the spread of that opportunity,    *)
(* and when the build of that opportunity is rejected the call returns     *)
(* the failure with that opportunity, having tried no later one.           *)
(***************************************************************************)
\* what the scan of the call returned
ScanOf(g) == find_volatility_arbitrage_opportunities(op.currency, g.scan).ret

\* the requests of the call that follow the scan
AfterScan(calls) ==
    SelectSeq(calls, LAMBDA req : IsBookRequest(req) \/ IsOrder(req) \/ IsCancel(req))

\* the request is for the opportunity's strike or for the strike 5% above it
OnSpreadOf(req, opportunity) ==
    \/ IsCancel(req)
    \/ /\ req.params.instrument_name[4] = opportunity.instrument[4]
       /\ req.params.instrument_name[3].value \in
             {opportunity.strike, opportunity.strike + (opportunity.strike * 5) \div 100}

C27_FirstOpportunityOnly ==
    Executing =>
        /\ Len(Orders(log)) <= 2
        /\ Len(Cancels(log)) <= 1
        /\ Len(SelectSeq(log, IsBookRequest)) <= 2
        /\ Built =>
              /\ ret.opportunity = ScanOf(env)[1]
              /\ \A i \in 1..Len(AfterScan(log)) :
                    OnSpreadOf(AfterScan(log)[i], ScanOf(env)[1])

\* the scan returns the call at 200 before the call at 100; the build for
\* the 200 finds no bid, and no request is made for the 100
C27_Witness ==
    /\ Executing
    /\ Built
    /\ Len(ScanOf(env)) = 2
    /\ ScanOf(env)[1].strike = 200
    /\ ScanOf(env)[2].strike = 100
    /\ ret.status = "failed"
    /\ ~Quoted(env.build)
    /\ Len(AfterScan(log)) = 2
    /\ \A i \in 1..Len(log) : IsBookRequest(log[i]) => log[i].params.instrument_name[3].value >= 200

(***************************************************************************)
(* C28: an exception raised in a strategy cycle does not end the trading   *)
(* loop: run catches it, running and the session are left as they were,    *)
(* the sleep of CHECK_INTERVAL seconds follows, and then the next cycle     *)
(* begins unless the run was told to stop in the meantime.                 *)
(***************************************************************************)
\* the cycle in flight has just ended on an exception
CycleFailed == system.outcome = "exception" /\ system.pc \in {"sleep", "loop"}

C28_Caught ==
    (InCycle(system) /\ system'.outcome = "exception") =>
        /\ system'.pc = "sleep"
        /\ system'.running = system.running
        /\ system'.session = "open"
        /\ system'.ended_by = "none"

C28_Slept ==
    (system.pc = "sleep" /\ system'.pc \notin {"sleep", "finally"}) =>
        /\ system'.pc = "loop"
        /\ system'.now >= system.now + CHECK_INTERVAL

C28_Resumed ==
    (CycleFailed /\ system.pc = "loop" /\ system.running /\ system'.pc # "loop") =>
        /\ system'.pc = "account"
        /\ system'.cycle = system.cycle + 1
        /\ system'.previous = "exception"

C28_LoopSurvivesException ==
    /\ [][C28_Caught /\ C28_Slept /\ C28_Resumed]_vars
    /\ \A n \in 1..(MaxCycles - 1) :
          (CycleFailed /\ system.cycle = n) ~> (system.cycle = n + 1 \/ ~system.running)

\* the third cycle is in flight after the second ended on an exception,
\* and no stop was requested
C28_Witness ==
    /\ InCycle(system)
    /\ system.cycle = 3
    /\ system.previous = "exception"
    /\ system.running
    /\ ~system.stop_called
    /\ system.now >= POSITION_CHECK_INTERVAL + 2 * CHECK_INTERVAL

(***************************************************************************)
(* C29: once stop() has been called, the awaited calls returning, run      *)
(* comes to its end with running False and the client session closed; the  *)
(* session is closed as well when the loop ends by an unexpected error.    *)
(***************************************************************************)
RunEnded == system.pc \in {"done", "returned"}

C29_LoopEndCloses ==
    system.pc = "done" => (~system.running /\ system.session = "closed")

C29_StopTerminates ==
    /\ []C29_LoopEndCloses
    /\ system.stop_called ~>
          (RunEnded /\ ~system.running /\ system.session = "closed")

(***************************************************************************)
(* C30: in the paper-trading book a position that was opened with          *)
(* simulate_trade and is closed later leaves the capital at its value      *)
(* before the open plus the realised P&L of the position, for a buy and    *)
(* for a sell: the close gives back what the open took and adds the P&L    *)
(* (so a close at the entry price restores the capital), and it removes    *)
(* from paper_positions that position and no other.                        *)
(***************************************************************************)
ManagingPaper == op.name = "manage_paper_positions"

\* the k-th position of the book before the call is one the call closes:
\* its book gave a price and an exit rule selected it
ClosedAt(k) ==
    LET position == op.before.paper_positions[k] IN
    /\ ~env[k].error
    /\ Truthy(CurrentPrice(position, Val(env[k].result)))
    /\ PaperExitAction(position, Val(CurrentPrice(position, Val(env[k].result)))) # ""

ClosePrice(k) == Val(CurrentPrice(op.before.paper_positions[k], Val(env[k].result)))

\* the realised P&L of a position closed at the price
Realised(position, price) ==
    IF position.direction = "buy"
    THEN (price - position.entry_price) * position.amount
    ELSE (position.entry_price - price) * position.amount

\* what the closes of the call have to add to the capital
RECURSIVE RoundTrips(_)
RoundTrips(k) ==
    IF k = 0 THEN 0
    ELSE RoundTrips(k - 1)
         + (IF ClosedAt(k)
            THEN op.before.paper_positions[k].debit
                 + Realised(op.before.paper_positions[k], ClosePrice(k))
            ELSE 0)

StillOpen(k) == ~ClosedAt(k)

C30_PaperRoundTrip ==
    ManagingPaper =>
        LET before == op.before.paper_positions
            kept   == SelectSeq([k \in 1..Len(before) |-> k], StillOpen)
        IN /\ paper.current_capital =
                 op.before.current_capital + RoundTrips(Len(before))
           /\ paper.paper_positions = [j \in 1..Len(kept) |-> before[kept[j]]]

====
